---------------------------- MODULE Spec2Model ----------------------------
(***************************************************************************)
(* Classification, framework selection and compliance scoring of the       *)
(* Indian legal KAG system (src/analysis_frameworks).                      *)
(*                                                                         *)
(* Numbers.  The classifier computes with floats, and so does the model:   *)
(* every score of classify_with_confidence is a binary64 value, computed   *)
(* by the program's operations in the program's order and rounded as the   *)
(* program rounds.  The tables hold a weight 0.4 as 4 and a threshold 0.7  *)
(* as 7 (tenths); Float(4, 10) is the float of the literal 0.4.  A         *)
(* confidence handed to the selector or to the scoring engine is an input, *)
(* held in units of 1/ScoreUnit, so 1.0 is ScoreUnit.                      *)
(* Text is a TLA+ string, the very characters handed to the program; the   *)
(* characters are those up to U+00FF.                                      *)
(*                                                                         *)
(* The scoring engine's points are held as integers: a criterion score in  *)
(* whole points, a weight in hundredths, a category score in hundredths of *)
(* a point, and overall_score as a fraction of such.  A float quotient can *)
(* fall one rounding step under the exact value: with the single category  *)
(* privacy_compliance at 57.0 the program computes                         *)
(* 57.0 * 0.3 / 0.3 = 56.99999999999999, which it ranks below the          *)
(* overall_risk bound 57.  The fraction therefore carries a flag for       *)
(* "just under", and both roundings are kept where they can be told apart. *)
(***************************************************************************)
EXTENDS Integers, Sequences, FiniteSets, TLC

VARIABLES
  pc,                 \* the call about to be made, then the call that has returned
  text,               \* classify_with_confidence: its argument,
  classification,     \*   its result (document_type, confidence, all_scores),
  dimension_scores,   \*   and the keyword, pattern and structure score of each scored type
  document_type,      \* select_frameworks: its arguments
  confidence,
  content_indicators,
  selection,          \*   and its result
  document_analysis,  \* calculate_comprehensive_score: its arguments
  frameworks_applied,
  scoring_results,    \*   and its result, or the exception that left it
  failing_types,      \* the document types whose scoring raises (none, with the shipped table)
  rated_type,         \* _get_risk_level: its arguments risk_type and score,
  rated_score,
  rated_level,        \*   and its result
  environment,        \* validate_environment_variables: os.environ,
  validation_results, \*   and its result
  history,            \* the calls made on the three engines so far, oldest first
  analysis_result,    \* analyze_document_comprehensive: its result (its argument is text)
  self                \* the tables the constructed engines hold, by attribute name

vars == <<pc, text, classification, dimension_scores, document_type, confidence,
          content_indicators, selection, document_analysis, frameworks_applied,
          scoring_results, failing_types, rated_type, rated_score, rated_level,
          environment, validation_results, history, analysis_result, self>>

---------------------------------------------------------------------------
(* Python values *)

\* An argument or dict value is held with its type: a str, a dict (a function
\* from its keys), a list (a sequence), None, or the absence of a dict key.
Str(s) == [tag |-> "str", val |-> s]
Dict(d) == [tag |-> "dict", val |-> d]
List(l) == [tag |-> "list", val |-> l]
None == [tag |-> "None"]
Missing == [tag |-> "missing"]
EmptyDict == <<>>

\* dict.get(key, default)
Get(d, key, default) == IF key \in DOMAIN d THEN d[key] ELSE default

Min(a, b) == IF a <= b THEN a ELSE b
Max(a, b) == IF a >= b THEN a ELSE b

\* The elements of a sequence, as a set.
Range(seq) == {seq[i] : i \in DOMAIN seq}

---------------------------------------------------------------------------
(* Python floats: IEEE 754 binary64 with round-to-nearest-even.  A float   *)
(* is [m, e] for the value m * 2^e; m is a 53-bit integer (2^52 <= m <     *)
(* 2^53) held as four 14-bit limbs, lowest first, and 0.0 has m = 0 and    *)
(* e = 0.  The program's floats are non-negative and far from overflow and *)
(* from the subnormal range, so neither sign nor special values are held.  *)

\* The limbs of a number given as column sums (a column counts 2^14 times
\* the one before it), with the carry c to add at the lowest column.
RECURSIVE Carry(_, _)
Carry(columns, c) ==
  IF columns = <<>>
  THEN IF c = 0 THEN <<>> ELSE <<c % 16384>> \o Carry(<<>>, c \div 16384)
  ELSE <<(Head(columns) + c) % 16384>>
       \o Carry(Tail(columns), (Head(columns) + c) \div 16384)

\* The number of bits of the number with these limbs.
BitLength(limbs) ==
  LET used == {i \in DOMAIN limbs : limbs[i] # 0}
  IN  IF used = {} THEN 0
      ELSE LET top == CHOOSE i \in used : \A j \in used : j <= i
           IN  14 * (top - 1) + (CHOOSE k \in 1..14 : 2^(k - 1) <= limbs[top] /\ limbs[top] < 2^k)

\* floor(n / 2^s) and n * 2^s, for the number n with these limbs
ShiftRight(limbs, s) ==
  LET limb(i) == IF i \in DOMAIN limbs THEN limbs[i] ELSE 0
  IN  [i \in 1..Max(1, Len(limbs) - s \div 14) |->
         limb(i + s \div 14) \div 2^(s % 14)
         + (limb(i + s \div 14 + 1) % 2^(s % 14)) * 2^(14 - (s % 14))]

ShiftLeft(limbs, s) ==
  Carry([i \in 1..(s \div 14) |-> 0] \o [i \in DOMAIN limbs |-> limbs[i] * 2^(s % 14)], 0)

\* The float nearest to n * 2^e, ties going to the even significand, for the
\* number n with these limbs; sticky says that the exact value lies above
\* n * 2^e by less than 2^e (a remainder was cut off).
Round(limbs, e, sticky) ==
  LET bits == BitLength(limbs)
      cut == bits - 53
  IN  IF bits = 0 THEN [m |-> <<0, 0, 0, 0>>, e |-> 0]
      ELSE IF cut <= 0
      THEN [m |-> SubSeq(ShiftLeft(limbs, -cut) \o <<0, 0, 0, 0>>, 1, 4), e |-> e + cut]
      ELSE
        LET kept == ShiftRight(limbs, cut)
            half == ShiftRight(limbs, cut - 1)[1] % 2 = 1
            rest == \/ sticky
                    \/ \E i \in DOMAIN limbs :
                         \/ i <= (cut - 1) \div 14 /\ limbs[i] # 0
                         \/ i = (cut - 1) \div 14 + 1 /\ limbs[i] % 2^((cut - 1) % 14) # 0
            up == half /\ (rest \/ kept[1] % 2 = 1)
            rounded == IF up THEN Carry(kept, 1) ELSE kept
        IN  IF BitLength(rounded) = 54
            THEN [m |-> <<0, 0, 0, 1024>>, e |-> e + cut + 1]
            ELSE [m |-> SubSeq(rounded \o <<0, 0, 0, 0>>, 1, 4), e |-> e + cut]

\* a * b and a + b of two floats
FMul(a, b) ==
  Round(Carry([k \in 1..7 |->
                 LET pairs == {i \in 1..4 : k + 1 - i \in 1..4}
                     Sum[S \in SUBSET pairs] ==
                       IF S = {} THEN 0
                       ELSE LET i == CHOOSE i \in S : TRUE
                            IN  a.m[i] * b.m[k + 1 - i] + Sum[S \ {i}]
                 IN  Sum[pairs]], 0),
        a.e + b.e, FALSE)

FAdd(a, b) ==
  IF a.m[4] = 0 THEN b
  ELSE IF b.m[4] = 0 THEN a
  ELSE LET e == Min(a.e, b.e)
           x == ShiftLeft(a.m, a.e - e)
           y == ShiftLeft(b.m, b.e - e)
       IN  Round(Carry([i \in 1..Max(Len(x), Len(y)) |->
                          (IF i <= Len(x) THEN x[i] ELSE 0)
                          + (IF i <= Len(y) THEN y[i] ELSE 0)], 0),
                 e, FALSE)

\* The limbs of floor(n / q), highest first, for the number n whose limbs come
\* highest first, with r to carry in from above; the remainder comes last.
RECURSIVE DivideBy(_, _, _)
DivideBy(limbs, q, r) ==
  IF limbs = <<>> THEN <<r>>
  ELSE <<(r * 16384 + Head(limbs)) \div q>>
       \o DivideBy(Tail(limbs), q, (r * 16384 + Head(limbs)) % q)

\* p / q of two integers, 0 <= p and 0 < q < 2^14: the float nearest to the
\* quotient.  It is also what Python makes of a decimal literal: 0.4 is
\* Float(4, 10).
Float(p, q) ==
  LET high == Carry(<<p>>, 0)
      dividend == [i \in 1..Len(high) |-> high[Len(high) + 1 - i]] \o <<0, 0, 0, 0, 0>>
      result == DivideBy(dividend, q, 0)
  IN  Round([i \in 1..(Len(result) - 1) |-> result[Len(result) - i]], -70,
            result[Len(result)] # 0)

\* a < b of two floats
FLess(a, b) ==
  IF a = b \/ b.m[4] = 0 THEN FALSE
  ELSE IF a.m[4] = 0 THEN TRUE
  ELSE IF a.e # b.e THEN a.e < b.e
  ELSE LET i == CHOOSE i \in 1..4 : a.m[i] # b.m[i] /\ \A j \in 1..4 : j > i => a.m[j] = b.m[j]
       IN  a.m[i] < b.m[i]

\* min(a, b) of two floats: the first of them unless the second is smaller
FMin(a, b) == IF FLess(b, a) THEN b ELSE a

---------------------------------------------------------------------------
(* Characters and strings *)

LowerLetters ==
  {"a","b","c","d","e","f","g","h","i","j","k","l","m",
   "n","o","p","q","r","s","t","u","v","w","x","y","z"}
UpperLetters ==
  {"A","B","C","D","E","F","G","H","I","J","K","L","M",
   "N","O","P","Q","R","S","T","U","V","W","X","Y","Z"}
\* The accented upper-case letters of Latin-1 and their lower-case forms.
UpperAccented ==
  {"À","Á","Â","Ã","Ä","Å","Æ","Ç","È","É",
   "Ê","Ë","Ì","Í","Î","Ï","Ð","Ñ","Ò","Ó",
   "Ô","Õ","Ö","Ø","Ù","Ú","Û","Ü","Ý","Þ"}
LowerAccented ==
  {"à","á","â","ã","ä","å","æ","ç","è","é",
   "ê","ë","ì","í","î","ï","ð","ñ","ò","ó",
   "ô","õ","ö","ø","ù","ú","û","ü","ý","þ"}
\* The other alphanumeric characters of Latin-1: letters without a case
\* pair, superscripts and fractions.
UncasedAlnum == {"ª","µ","º","ß","ÿ","²","³","¹","¼","½","¾"}
\* A text is a string of characters up to U+00FF.  Among these \d matches the
\* ten ASCII digits only.
Digits == {"0","1","2","3","4","5","6","7","8","9"}
\* \s, and what str.strip / str.split drop: str.isspace() of the character.
\* The characters after form feed are U+000B, U+001C to U+001F, U+0085 and
\* U+00A0.
Whitespace == {" ", "\t", "\n", "\r", "\f", "", "", "", "", "", "", " "}
\* \w: str.isalnum() of the character, or the underscore.
WordChars ==
  LowerLetters \cup UpperLetters \cup Digits \cup {"_"}
  \cup UpperAccented \cup LowerAccented \cup UncasedAlnum
\* [A-Z] under re.IGNORECASE, among the characters up to U+00FF.
AtoZ == LowerLetters \cup UpperLetters

\* str.lower() of one character.
LowerChar(c) ==
  CASE c = "A" -> "a" [] c = "B" -> "b" [] c = "C" -> "c" [] c = "D" -> "d"
    [] c = "E" -> "e" [] c = "F" -> "f" [] c = "G" -> "g" [] c = "H" -> "h"
    [] c = "I" -> "i" [] c = "J" -> "j" [] c = "K" -> "k" [] c = "L" -> "l"
    [] c = "M" -> "m" [] c = "N" -> "n" [] c = "O" -> "o" [] c = "P" -> "p"
    [] c = "Q" -> "q" [] c = "R" -> "r" [] c = "S" -> "s" [] c = "T" -> "t"
    [] c = "U" -> "u" [] c = "V" -> "v" [] c = "W" -> "w" [] c = "X" -> "x"
    [] c = "Y" -> "y" [] c = "Z" -> "z" [] c = "À" -> "à" [] c = "Á" -> "á"
    [] c = "Â" -> "â" [] c = "Ã" -> "ã" [] c = "Ä" -> "ä" [] c = "Å" -> "å"
    [] c = "Æ" -> "æ" [] c = "Ç" -> "ç" [] c = "È" -> "è" [] c = "É" -> "é"
    [] c = "Ê" -> "ê" [] c = "Ë" -> "ë" [] c = "Ì" -> "ì" [] c = "Í" -> "í"
    [] c = "Î" -> "î" [] c = "Ï" -> "ï" [] c = "Ð" -> "ð" [] c = "Ñ" -> "ñ"
    [] c = "Ò" -> "ò" [] c = "Ó" -> "ó" [] c = "Ô" -> "ô" [] c = "Õ" -> "õ"
    [] c = "Ö" -> "ö" [] c = "Ø" -> "ø" [] c = "Ù" -> "ù" [] c = "Ú" -> "ú"
    [] c = "Û" -> "û" [] c = "Ü" -> "ü" [] c = "Ý" -> "ý" [] c = "Þ" -> "þ"
    [] OTHER -> c

CharAt(s, i) == SubSeq(s, i, i)

\* str.lower(): every character case-folded, the string halved at each step
RECURSIVE lower(_)
lower(s) ==
  IF s = "" THEN ""
  ELSE IF Len(s) = 1 THEN LowerChar(s)
  ELSE LET half == Len(s) \div 2
       IN  lower(SubSeq(s, 1, half)) \o lower(SubSeq(s, half + 1, Len(s)))

\* `needle in haystack` of two strings
StrIn(needle, haystack) ==
  \E i \in 1..(Len(haystack) - Len(needle) + 1) :
    SubSeq(haystack, i, i + Len(needle) - 1) = needle

\* len(s.strip())
StrippedLen(s) ==
  LET solid == {i \in 1..Len(s) : CharAt(s, i) \notin Whitespace}
  IN  IF solid = {} THEN 0
      ELSE (CHOOSE i \in solid : \A j \in solid : j <= i)
           - (CHOOSE i \in solid : \A j \in solid : j >= i) + 1

\* len(s.split()): the number of maximal runs of non-whitespace characters
WordCount(s) ==
  Cardinality({i \in 1..Len(s) :
                 /\ CharAt(s, i) \notin Whitespace
                 /\ (i = 1 \/ CharAt(s, i - 1) \in Whitespace)})

---------------------------------------------------------------------------
(* Regular expressions: the subset of `re` syntax the tables below use.    *)
(* A pattern is a sequence of elements, held case-folded because every     *)
(* search in the program passes re.IGNORECASE; it is matched against the   *)
(* case-folded text.                                                       *)

Lit(s)   == [kind |-> "lit",  str |-> s]       \* a run of literal characters
One(cs)  == [kind |-> "one",  set |-> cs]      \* one character of a class
Plus(cs) == [kind |-> "plus", set |-> cs]      \* class+ (greedy, backtracking)
Opt(cs)  == [kind |-> "opt",  set |-> cs]      \* class?
PlusNot(cs) == [kind |-> "plusnot", set |-> cs]   \* [^class]+: any character outside it

\* The length of the longest run of characters in s from position i that
\* element e, a class+ or a [^class]+, takes.
RECURSIVE RunLen(_, _, _)
RunLen(s, i, e) ==
  IF i <= Len(s) /\ ((CharAt(s, i) \in e.set) # (e.kind = "plusnot"))
  THEN 1 + RunLen(s, i + 1, e)
  ELSE 0

\* Whether elements k.. of pattern re match s starting at position i.
RECURSIVE MatchAt(_, _, _, _)
MatchAt(s, i, re, k) ==
  IF k > Len(re) THEN TRUE
  ELSE LET e == re[k] IN
    CASE e.kind = "lit" ->
           /\ i + Len(e.str) - 1 <= Len(s)
           /\ SubSeq(s, i, i + Len(e.str) - 1) = e.str
           /\ MatchAt(s, i + Len(e.str), re, k + 1)
      [] e.kind = "one" ->
           /\ i <= Len(s)
           /\ CharAt(s, i) \in e.set
           /\ MatchAt(s, i + 1, re, k + 1)
      [] e.kind = "opt" ->
           \/ /\ i <= Len(s)
              /\ CharAt(s, i) \in e.set
              /\ MatchAt(s, i + 1, re, k + 1)
           \/ MatchAt(s, i, re, k + 1)
      [] e.kind \in {"plus", "plusnot"} ->
           \E n \in 1..RunLen(s, i, e) : MatchAt(s, i + n, re, k + 1)

\* bool(re.search(pattern, s, re.IGNORECASE)), given folded = s.lower()
re_search(re, folded) ==
  \E i \in 1..Len(folded) : MatchAt(folded, i, re, 1)

---------------------------------------------------------------------------
(* document_classifier.py: AdvancedDocumentClassifier *)

ScoreUnit == 420 * 1000     \* 1.0 as a confidence handed to the selector or the scoring engine

DocTypeOrder ==
  <<"government_notification",
    "office_memorandum",
    "recruitment_rules",
    "constitutional_document",
    "constitutional_amendment",
    "supreme_court_judgment",
    "high_court_judgment",
    "privacy_policy",
    "dpdpa_compliance_document",
    "service_agreement",
    "employment_contract",
    "general_legal_document">>

document_patterns ==
     "government_notification" :> [
       keywords |-> <<"government of india", "notification", "ministry", "gazette", "office memorandum", "central government", "bharat sarkar">>,
       patterns |-> <<
         <<Lit("no."), Plus(Whitespace), One(AtoZ), Lit("-"), Plus(Digits)>>,   \* No\.\s+[A-Z]-\d+
         <<Lit("dated"), Plus(Whitespace), Lit("the"), Plus(Whitespace), Plus(Digits)>>,   \* dated\s+the\s+\d+
         <<Lit("government"), Plus(Whitespace), Lit("of"), Plus(Whitespace), Lit("india")>>,   \* Government\s+of\s+India
         <<Lit("ministry"), Plus(Whitespace), Lit("of")>>,   \* Ministry\s+of
         <<Lit("department"), Plus(Whitespace), Lit("of")>>   \* Department\s+of
         >>,
       structure |-> <<"preamble", "notification", "signature", "seal">>,
       weight_keyword |-> 4, weight_pattern |-> 3, weight_structure |-> 3]
  @@ "office_memorandum" :> [
       keywords |-> <<"office memorandum", "om", "circular", "guidelines", "instructions", "departmental">>,
       patterns |-> <<
         <<Lit("office"), Plus(Whitespace), Lit("memorandum")>>,   \* OFFICE\s+MEMORANDUM
         <<Lit("o.m."), Plus(Whitespace), Lit("no")>>,   \* O\.M\.\s+No
         <<Lit("circular"), Plus(Whitespace), Lit("no")>>,   \* Circular\s+No
         <<Lit("guidelines")>>   \* Guidelines
         >>,
       structure |-> <<"header", "subject", "body", "signature">>,
       weight_keyword |-> 5, weight_pattern |-> 3, weight_structure |-> 2]
  @@ "recruitment_rules" :> [
       keywords |-> <<"recruitment rules", "appointment", "selection", "eligibility", "qualification", "cadre">>,
       patterns |-> <<
         <<Lit("recruitment"), Plus(Whitespace), Lit("rules")>>,   \* Recruitment\s+Rules
         <<Lit("post"), Plus(Whitespace), Lit("of")>>,   \* post\s+of
         <<Lit("group"), Plus(Whitespace), One({"a", "b"})>>,   \* Group\s+[AB]
         <<Lit("pay"), Plus(Whitespace), Lit("matrix")>>,   \* Pay\s+Matrix
         <<Lit("level"), Plus(Whitespace), Plus(Digits)>>   \* Level\s+\d+
         >>,
       structure |-> <<"rules", "schedule", "qualifications">>,
       weight_keyword |-> 4, weight_pattern |-> 4, weight_structure |-> 2]
  @@ "constitutional_document" :> [
       keywords |-> <<"constitution", "article", "fundamental rights", "directive principles", "part iii", "part iv">>,
       patterns |-> <<
         <<Lit("article"), Plus(Whitespace), Plus(Digits)>>,   \* Article\s+\d+
         <<Lit("constitution"), Plus(Whitespace), Lit("of"), Plus(Whitespace), Lit("india")>>,   \* Constitution\s+of\s+India
         <<Lit("part"), Plus(Whitespace), Plus({"i", "v", "x"})>>,   \* Part\s+[IVX]+
         <<Lit("schedule"), Plus(Whitespace), Plus({"i", "v", "x"})>>   \* Schedule\s+[IVX]+
         >>,
       structure |-> <<"articles", "parts", "schedules">>,
       weight_keyword |-> 3, weight_pattern |-> 5, weight_structure |-> 2]
  @@ "constitutional_amendment" :> [
       keywords |-> <<"constitutional amendment", "amendment act", "constitution amendment", "amending">>,
       patterns |-> <<
         <<Lit("constitution"), Plus(Whitespace), Lit("("), PlusNot({")"}), Plus(Whitespace), Lit("amendment)"), Plus(Whitespace), Lit("act")>>,   \* Constitution\s+\([^)]+\s+Amendment\)\s+Act
         <<Lit("amendment"), Plus(Whitespace), Lit("act"), Plus(Whitespace), One(Digits), One(Digits), One(Digits), One(Digits)>>,   \* Amendment\s+Act\s+\d{4}
         <<Lit("article"), Plus(Whitespace), Lit("368")>>   \* Article\s+368
         >>,
       structure |-> <<"amendment", "explanation", "commencement">>,
       weight_keyword |-> 4, weight_pattern |-> 4, weight_structure |-> 2]
  @@ "supreme_court_judgment" :> [
       keywords |-> <<"supreme court", "bench", "justice", "appeal", "petition", "writ", "suo moto">>,
       patterns |-> <<
         <<Lit("supreme"), Plus(Whitespace), Lit("court"), Plus(Whitespace), Lit("of"), Plus(Whitespace), Lit("india")>>,   \* Supreme\s+Court\s+of\s+India
         <<Plus(WordChars), Plus(Whitespace), Lit("v"), Opt({"."}), Plus(Whitespace), Plus(WordChars)>>,   \* (\w+)\s+v\.?\s+(\w+)
         <<Lit("air"), Plus(Whitespace), One(Digits), One(Digits), One(Digits), One(Digits), Plus(Whitespace), Lit("sc")>>,   \* AIR\s+\d{4}\s+SC
         <<Lit("justice"), Plus(Whitespace), One(AtoZ)>>   \* Justice\s+[A-Z]
         >>,
       structure |-> <<"case_title", "bench", "judgment", "orders">>,
       weight_keyword |-> 3, weight_pattern |-> 5, weight_structure |-> 2]
  @@ "high_court_judgment" :> [
       keywords |-> <<"high court", "division bench", "single bench", "writ petition", "appeal">>,
       patterns |-> <<
         <<Lit("high"), Plus(Whitespace), Lit("court")>>,   \* High\s+Court
         <<Lit("division"), Plus(Whitespace), Lit("bench")>>,   \* Division\s+Bench
         <<Lit("w.p."), Plus(Whitespace), Lit("no")>>,   \* W\.P\.\s+No
         <<Lit("criminal"), Plus(Whitespace), Lit("appeal")>>   \* Criminal\s+Appeal
         >>,
       structure |-> <<"case_details", "facts", "judgment", "order">>,
       weight_keyword |-> 3, weight_pattern |-> 4, weight_structure |-> 3]
  @@ "privacy_policy" :> [
       keywords |-> <<"privacy policy", "data collection", "personal information", "cookies", "data processing">>,
       patterns |-> <<
         <<Lit("privacy"), Plus(Whitespace), Lit("policy")>>,   \* Privacy\s+Policy
         <<Lit("data"), Plus(Whitespace), Lit("protection")>>,   \* Data\s+Protection
         <<Lit("personal"), Plus(Whitespace), Lit("data")>>,   \* Personal\s+Data
         <<Lit("cookie"), Plus(Whitespace), Lit("policy")>>   \* Cookie\s+Policy
         >>,
       structure |-> <<"collection", "usage", "sharing", "rights">>,
       weight_keyword |-> 4, weight_pattern |-> 3, weight_structure |-> 3]
  @@ "dpdpa_compliance_document" :> [
       keywords |-> <<"dpdpa", "digital personal data protection act", "data fiduciary", "data principal", "consent">>,
       patterns |-> <<
         <<Lit("dpdpa"), Plus(Whitespace), Lit("2023")>>,   \* DPDPA\s+2023
         <<Lit("data"), Plus(Whitespace), Lit("fiduciary")>>,   \* Data\s+Fiduciary
         <<Lit("data"), Plus(Whitespace), Lit("principal")>>,   \* Data\s+Principal
         <<Lit("digital"), Plus(Whitespace), Lit("personal"), Plus(Whitespace), Lit("data")>>   \* Digital\s+Personal\s+Data
         >>,
       structure |-> <<"compliance", "procedures", "rights", "obligations">>,
       weight_keyword |-> 5, weight_pattern |-> 3, weight_structure |-> 2]
  @@ "service_agreement" :> [
       keywords |-> <<"service agreement", "services", "contractor", "client", "deliverables">>,
       patterns |-> <<
         <<Lit("service"), Plus(Whitespace), Lit("agreement")>>,   \* Service\s+Agreement
         <<Lit("statement"), Plus(Whitespace), Lit("of"), Plus(Whitespace), Lit("work")>>,   \* Statement\s+of\s+Work
         <<Lit("deliverables")>>,   \* Deliverables
         <<Lit("service"), Plus(Whitespace), Lit("level")>>   \* Service\s+Level
         >>,
       structure |-> <<"scope", "deliverables", "payment", "termination">>,
       weight_keyword |-> 4, weight_pattern |-> 3, weight_structure |-> 3]
  @@ "employment_contract" :> [
       keywords |-> <<"employment", "employee", "employer", "salary", "designation", "terms of employment">>,
       patterns |-> <<
         <<Lit("employment"), Plus(Whitespace), Lit("agreement")>>,   \* Employment\s+Agreement
         <<Lit("terms"), Plus(Whitespace), Lit("of"), Plus(Whitespace), Lit("employment")>>,   \* Terms\s+of\s+Employment
         <<Lit("job"), Plus(Whitespace), Lit("description")>>,   \* Job\s+Description
         <<Lit("compensation")>>   \* Compensation
         >>,
       structure |-> <<"position", "duties", "compensation", "termination">>,
       weight_keyword |-> 4, weight_pattern |-> 3, weight_structure |-> 3]
  @@ "general_legal_document" :> [
       keywords |-> <<"legal", "law", "agreement", "contract", "terms">>,
       patterns |-> <<
         <<Lit("agreement")>>,   \* Agreement
         <<Lit("contract")>>,   \* Contract
         <<Lit("terms")>>,   \* Terms
         <<Lit("legal")>>   \* Legal
         >>,
       structure |-> <<"parties", "terms", "obligations">>,
       weight_keyword |-> 3, weight_pattern |-> 3, weight_structure |-> 4]

IndicatorOrder ==
  <<"constitutional_markers", "indian_statutes", "government_indicators", "legal_concepts">>

indian_legal_indicators ==
     "constitutional_markers" :> <<
         <<Lit("article"), Plus(Whitespace), Plus(Digits)>>,   \* Article\s+\d+
         <<Lit("constitution"), Plus(Whitespace), Lit("of"), Plus(Whitespace), Lit("india")>>,   \* Constitution\s+of\s+India
         <<Lit("fundamental"), Plus(Whitespace), Lit("rights")>>,   \* Fundamental\s+Rights
         <<Lit("directive"), Plus(Whitespace), Lit("principles")>>,   \* Directive\s+Principles
         <<Lit("supreme"), Plus(Whitespace), Lit("court")>>,   \* Supreme\s+Court
         <<Lit("high"), Plus(Whitespace), Lit("court")>>   \* High\s+Court
         >>
  @@ "indian_statutes" :> <<
         <<Lit("indian"), Plus(Whitespace), Lit("penal"), Plus(Whitespace), Lit("code")>>,   \* Indian\s+Penal\s+Code
         <<Lit("companies"), Plus(Whitespace), Lit("act")>>,   \* Companies\s+Act
         <<Lit("contract"), Plus(Whitespace), Lit("act")>>,   \* Contract\s+Act
         <<Lit("dpdpa"), Plus(Whitespace), Lit("2023")>>,   \* DPDPA\s+2023
         <<Lit("it"), Plus(Whitespace), Lit("act")>>,   \* IT\s+Act
         <<Lit("consumer"), Plus(Whitespace), Lit("protection"), Plus(Whitespace), Lit("act")>>   \* Consumer\s+Protection\s+Act
         >>
  @@ "government_indicators" :> <<
         <<Lit("government"), Plus(Whitespace), Lit("of"), Plus(Whitespace), Lit("india")>>,   \* Government\s+of\s+India
         <<Lit("ministry"), Plus(Whitespace), Lit("of")>>,   \* Ministry\s+of
         <<Lit("central"), Plus(Whitespace), Lit("government")>>,   \* Central\s+Government
         <<Lit("state"), Plus(Whitespace), Lit("government")>>,   \* State\s+Government
         <<Lit("gazette"), Plus(Whitespace), Lit("of"), Plus(Whitespace), Lit("india")>>   \* Gazette\s+of\s+India
         >>
  @@ "legal_concepts" :> <<
         <<Lit("whereas")>>,   \* whereas
         <<Lit("hereby")>>,   \* hereby
         <<Lit("provided"), Plus(Whitespace), Lit("that")>>,   \* provided\s+that
         <<Lit("notwithstanding")>>,   \* notwithstanding
         <<Lit("subject"), Plus(Whitespace), Lit("to")>>,   \* subject\s+to
         <<Lit("in"), Plus(Whitespace), Lit("exercise"), Plus(Whitespace), Lit("of")>>   \* in\s+exercise\s+of
         >>


\* Thresholds in tenths.
confidence_thresholds ==
     "government_notification" :> 7
  @@ "constitutional_document" :> 6
  @@ "supreme_court_judgment" :> 8
  @@ "privacy_policy" :> 6
  @@ "dpdpa_compliance_document" :> 8
  @@ "employment_contract" :> 5
  @@ "service_agreement" :> 5
  @@ "default" :> 4

\* matches / len(keywords)
_calculate_keyword_score(text_lower, keywords) ==
  IF keywords = <<>> THEN Float(0, 1)
  ELSE LET matches == Cardinality({i \in DOMAIN keywords : StrIn(lower(keywords[i]), text_lower)})
       IN  Float(matches, Len(keywords))

_calculate_pattern_score(txt, patterns) ==
  IF patterns = <<>> THEN Float(0, 1)
  ELSE LET folded == lower(txt)
           matches == Cardinality({i \in DOMAIN patterns : re_search(patterns[i], folded)})
       IN  Float(matches, Len(patterns))

_calculate_structure_score(text_lower, structure_elements) ==
  IF structure_elements = <<>> THEN Float(0, 1)
  ELSE LET matches == Cardinality({i \in DOMAIN structure_elements :
                                     StrIn(lower(structure_elements[i]), text_lower)})
       IN  Float(matches, Len(structure_elements))

\* The bonus: 0.0, then 0.1 added for each indicator category with a
\* matching pattern, in the order of the table, and min(0.5, bonus).
_calculate_indian_legal_bonus(txt) ==
  LET folded == lower(txt)
      hit(c) == \E i \in DOMAIN indian_legal_indicators[c] :
                   re_search(indian_legal_indicators[c][i], folded)
      bonus[k \in 0..Len(IndicatorOrder)] ==       \* after the first k categories
        IF k = 0 THEN Float(0, 1)
        ELSE IF hit(IndicatorOrder[k]) THEN FAdd(bonus[k - 1], Float(1, 10))
        ELSE bonus[k - 1]
  IN  FMin(Float(5, 10), bonus[Len(IndicatorOrder)])

\* max(scores, key=scores.get): the first key, in insertion order, that
\* holds the largest value.
RECURSIVE FirstMax(_, _, _)
FirstMax(order, scores, i) ==
  IF i = Len(order) THEN order[i]
  ELSE LET rest == FirstMax(order, scores, i + 1)
       IN  IF FLess(scores[order[i]], scores[rest]) THEN rest ELSE order[i]

GuardResult == [document_type |-> "unknown", confidence |-> Float(0, 1), all_scores |-> EmptyDict]

\* The three dimension scores of one document type.
DimensionScores(txt, criteria) ==
  LET text_lower == lower(txt)
  IN  [keyword_score   |-> _calculate_keyword_score(text_lower, criteria.keywords),
       pattern_score   |-> _calculate_pattern_score(txt, criteria.patterns),
       structure_score |-> _calculate_structure_score(text_lower, criteria.structure)]

\* keyword_score * weight_keyword + pattern_score * weight_pattern
\* + structure_score * weight_structure, added up from the left
WeightedSum(dims, criteria) ==
  FAdd(FAdd(FMul(dims.keyword_score, Float(criteria.weight_keyword, 10)),
            FMul(dims.pattern_score, Float(criteria.weight_pattern, 10))),
       FMul(dims.structure_score, Float(criteria.weight_structure, 10)))

\* Variants of FinalScore, each leaving out or moving one step of the
\* computation: the cap at 1.0, the Indian legal bonus, the length
\* normalisation, and the cap applied before the length normalisation.
FinalScoreUncapped(dims, criteria, indian_bonus, n_words) ==
  FMul(FAdd(WeightedSum(dims, criteria), FMul(indian_bonus, Float(1, 10))),
       FMin(Float(1, 1), Float(n_words, 100)))

FinalScoreWithoutBonus(dims, criteria, indian_bonus, n_words) ==
  FMin(Float(1, 1), FMul(WeightedSum(dims, criteria),
                         FMin(Float(1, 1), Float(n_words, 100))))

FinalScoreWithoutLengthFactor(dims, criteria, indian_bonus, n_words) ==
  FMin(Float(1, 1), FAdd(WeightedSum(dims, criteria), FMul(indian_bonus, Float(1, 10))))

FinalScoreClampedFirst(dims, criteria, indian_bonus, n_words) ==
  FMul(FMin(Float(1, 1),
            FAdd(WeightedSum(dims, criteria), FMul(indian_bonus, Float(1, 10)))),
       FMin(Float(1, 1), Float(n_words, 100)))

\* final_score of one type: the weighted sum plus indian_bonus * 0.1, times
\* the length factor, and min(1.0, final_score)
FinalScore(dims, criteria, indian_bonus, n_words) ==
  LET final_score == FAdd(WeightedSum(dims, criteria), FMul(indian_bonus, Float(1, 10)))
      length_factor == FMin(Float(1, 1), Float(n_words, 100))
  IN  FMin(Float(1, 1), FMul(final_score, length_factor))

\* A variant of the guard that measures the text without stripping it.
GuardFiresUnstripped(t) == t.tag = "None" \/ t.val = "" \/ Len(t.val) < 10

\* not text or len(text.strip()) < 10
GuardFires(t) == t.tag = "None" \/ t.val = "" \/ StrippedLen(t.val) < 10

\* The dimension scores of every type whose scoring did not raise.  failing
\* holds the types whose table entry makes the scoring raise at its first
\* step (an entry without "keywords"); the shipped table has none.
ScoreAllTypes(txt, failing) ==
  [d \in Range(DocTypeOrder) \ failing |-> DimensionScores(txt, document_patterns[d])]

\* confidence_thresholds.get(best_type, confidence_thresholds['default']), in tenths
ThresholdOf(doc_type) ==
  IF doc_type \in DOMAIN confidence_thresholds
  THEN confidence_thresholds[doc_type]
  ELSE confidence_thresholds["default"]

\* A variant of the fallback that holds every type to the default threshold.
ThresholdFallbackDefaultOnly(winner, best_confidence) ==
  IF FLess(best_confidence, Float(confidence_thresholds["default"], 10))
  THEN IF FLess(Float(2, 10), best_confidence)
       THEN "general_legal_document"
       ELSE "unknown"
  ELSE winner

\* The type returned for the winning type and its score: the winner when
\* the score meets the winner's threshold, else a fallback label.
\* A fallback that never answers "unknown".
ThresholdFallbackAlwaysGeneral(winner, best_confidence) ==
  IF FLess(best_confidence, Float(ThresholdOf(winner), 10))
  THEN "general_legal_document"
  ELSE winner
ThresholdFallback(winner, best_confidence) ==
  IF FLess(best_confidence, Float(ThresholdOf(winner), 10))
  THEN IF FLess(Float(2, 10), best_confidence)
       THEN "general_legal_document"
       ELSE "unknown"
  ELSE winner

\* A variant of classify_with_confidence that gives a type whose scoring
\* raised no entry at all.
ClassifyDroppingFailedTypes(t, dims) ==
  IF GuardFires(t) \/ DOMAIN dims = {} THEN GuardResult
  ELSE
    LET n_words == WordCount(t.val)
        indian_bonus == _calculate_indian_legal_bonus(t.val)
        scored == SelectSeq(DocTypeOrder, LAMBDA d : d \in DOMAIN dims)
        after[k \in 0..Len(scored)] ==
          IF k = 0 THEN EmptyDict
          ELSE after[k - 1]
               @@ (scored[k] :> FinalScore(dims[scored[k]], document_patterns[scored[k]],
                                           indian_bonus, n_words))
        classification_scores == after[Len(scored)]
        winner == FirstMax(scored, classification_scores, 1)
        best_confidence == classification_scores[winner]
        best_type == ThresholdFallback(winner, best_confidence)
    IN  [document_type |-> best_type,
         confidence    |-> best_confidence,
         all_scores    |-> classification_scores]

classify_with_confidence(t, dims) ==
  IF GuardFires(t) THEN GuardResult
  ELSE
    LET n_words == WordCount(t.val)
        indian_bonus == _calculate_indian_legal_bonus(t.val)
        after[k \in 0..Len(DocTypeOrder)] ==     \* classification_scores after k turns of the loop
          IF k = 0 THEN EmptyDict
          ELSE LET doc_type == DocTypeOrder[k]
               IN  after[k - 1]
                   @@ (doc_type :>
                         IF doc_type \in DOMAIN dims
                         THEN FinalScore(dims[doc_type], document_patterns[doc_type],
                                         indian_bonus, n_words)
                         ELSE Float(0, 1))           \* except Exception: 0.0
        classification_scores == after[Len(DocTypeOrder)]
        winner == FirstMax(DocTypeOrder, classification_scores, 1)
        best_confidence == classification_scores[winner]
        best_type == ThresholdFallback(winner, best_confidence)
    IN  [document_type |-> best_type,
         confidence    |-> best_confidence,
         all_scores    |-> classification_scores]

---------------------------------------------------------------------------
(* framework_engine.py: AdaptiveLegalFrameworkEngine *)

\* The registry's keys in insertion order.
FrameworkOrder ==
  <<"constitutional_analysis", "privacy_rights_analysis", "dpdpa_compliance",
    "contract_law_analysis", "administrative_law", "general_legal_analysis">>

\* applicable_documents and priority of each registered framework.
framework_registry ==
     "constitutional_analysis" :> [
       applicable_documents |-> <<"government_notification", "constitutional_document",
                                  "supreme_court_judgment", "constitutional_amendment",
                                  "recruitment_rules", "office_memorandum">>,
       priority |-> 1]
  @@ "privacy_rights_analysis" :> [
       applicable_documents |-> <<"privacy_policy", "dpdpa_compliance_document",
                                  "data_processing_agreement", "employment_contract",
                                  "service_agreement">>,
       priority |-> 2]
  @@ "dpdpa_compliance" :> [
       applicable_documents |-> <<"privacy_policy", "dpdpa_compliance_document",
                                  "data_processing_agreement">>,
       priority |-> 2]
  @@ "contract_law_analysis" :> [
       applicable_documents |-> <<"service_agreement", "employment_contract",
                                  "non_disclosure_agreement", "partnership_agreement",
                                  "loan_agreement", "lease_agreement">>,
       priority |-> 3]
  @@ "administrative_law" :> [
       applicable_documents |-> <<"government_notification", "office_memorandum",
                                  "recruitment_rules", "policy_document",
                                  "compliance_manual">>,
       priority |-> 2]
  @@ "general_legal_analysis" :> [
       applicable_documents |-> <<"general_legal_document", "unknown">>,
       priority |-> 4]

combination_rules ==
     "government_documents" :> <<"constitutional_analysis", "administrative_law">>
  @@ "privacy_documents"    :> <<"privacy_rights_analysis", "dpdpa_compliance",
                                 "constitutional_analysis">>
  @@ "commercial_contracts" :> <<"contract_law_analysis", "constitutional_analysis">>
  @@ "employment_matters"   :> <<"labor_law_analysis", "contract_law_analysis",
                                 "constitutional_analysis">>
  @@ "judicial_documents"   :> <<"case_law_analysis", "constitutional_analysis">>

minimum_frameworks == 1
maximum_frameworks == 4
DefaultPriority == 5          \* priority of a name the registry does not hold

\* seq with x appended unless it is already an element
AppendNew(seq, x) == IF x \in Range(seq) THEN seq ELSE Append(seq, x)

\* for x in more: if x not in seq: seq.append(x)
RECURSIVE ExtendNew(_, _)
ExtendNew(seq, more) ==
  IF more = <<>> THEN seq ELSE ExtendNew(AppendNew(seq, Head(more)), Tail(more))

_get_primary_frameworks(doc_type, conf) ==
  SelectSeq(FrameworkOrder,
            LAMBDA f : doc_type \in Range(framework_registry[f].applicable_documents))

_get_content_based_frameworks(indicators) ==
     (IF Get(indicators, "constitutional_relevance", FALSE)
      THEN <<"constitutional_analysis">> ELSE <<>>)
  \o (IF Get(indicators, "dpdpa_relevance", FALSE)
         \/ Get(indicators, "privacy_terms", <<>>) # <<>>
      THEN <<"privacy_rights_analysis", "dpdpa_compliance">> ELSE <<>>)
  \o (IF Get(indicators, "government_terms", <<>>) # <<>>
      THEN <<"administrative_law">> ELSE <<>>)

_categorize_document_type(doc_type) ==
  IF doc_type \in {"government_notification", "office_memorandum", "recruitment_rules"}
    THEN "government_documents"
  ELSE IF doc_type \in {"privacy_policy", "dpdpa_compliance_document"}
    THEN "privacy_documents"
  ELSE IF doc_type \in {"service_agreement", "employment_contract"}
    THEN "commercial_contracts"
  ELSE IF doc_type \in {"employment_contract"}
    THEN "employment_matters"
  ELSE IF doc_type \in {"supreme_court_judgment", "high_court_judgment"}
    THEN "judicial_documents"
  ELSE "general_documents"

_apply_combination_rules(doc_type, frameworks) ==
  LET doc_category == _categorize_document_type(doc_type)
      combination_rule == Get(combination_rules, doc_category, <<>>)
  IN  ExtendNew(frameworks, combination_rule)

PriorityOf(framework) ==
  IF framework \in DOMAIN framework_registry
  THEN framework_registry[framework].priority
  ELSE DefaultPriority

\* list.sort(key=priority): ascending, equal keys keep their order (stable),
\* by insertion of each element after the last element that is not larger.
\* A sort by priority that is not stable: of two frameworks of equal priority
\* the one added later comes first.
RECURSIVE SortByPriorityUnstable(_)
SortByPriorityUnstable(frameworks) ==
  IF frameworks = <<>> THEN <<>>
  ELSE LET last == frameworks[Len(frameworks)]
           front == SortByPriorityUnstable(SubSeq(frameworks, 1, Len(frameworks) - 1))
       IN  SelectSeq(front, LAMBDA f : PriorityOf(f) < PriorityOf(last))
           \o <<last>>
           \o SelectSeq(front, LAMBDA f : PriorityOf(f) >= PriorityOf(last))
RECURSIVE SortByPriority(_)
SortByPriority(frameworks) ==
  IF frameworks = <<>> THEN <<>>
  ELSE LET last == frameworks[Len(frameworks)]
           front == SortByPriority(SubSeq(frameworks, 1, Len(frameworks) - 1))
       IN  SelectSeq(front, LAMBDA f : PriorityOf(f) <= PriorityOf(last))
           \o <<last>>
           \o SelectSeq(front, LAMBDA f : PriorityOf(f) > PriorityOf(last))

\* Variants of _prioritize_and_limit_frameworks: one that applies no maximum,
\* one that cuts the list one framework short of the maximum.
PrioritizeWithoutMaximum(frameworks) ==
  LET sorted_frameworks == SortByPriority(frameworks)
  IN  IF Len(sorted_frameworks) < minimum_frameworks
      THEN AppendNew(sorted_frameworks, "general_legal_analysis")
      ELSE sorted_frameworks

PrioritizeAndCutShort(frameworks) ==
  LET sorted_frameworks == SortByPriority(frameworks)
      with_minimum ==
        IF Len(sorted_frameworks) < minimum_frameworks
        THEN AppendNew(sorted_frameworks, "general_legal_analysis")
        ELSE sorted_frameworks
  IN  SubSeq(with_minimum, 1, Min(maximum_frameworks - 1, Len(with_minimum)))

\* _prioritize_and_limit_frameworks without the fallback for a list shorter
\* than the minimum.
PrioritizeWithoutMinimum(frameworks) ==
  LET sorted_frameworks == SortByPriority(frameworks)
  IN  SubSeq(sorted_frameworks, 1, Min(maximum_frameworks, Len(sorted_frameworks)))
_prioritize_and_limit_frameworks(frameworks) ==
  LET sorted_frameworks == SortByPriority(frameworks)
      with_minimum ==
        IF Len(sorted_frameworks) < minimum_frameworks
        THEN AppendNew(sorted_frameworks, "general_legal_analysis")
        ELSE sorted_frameworks
  IN  SubSeq(with_minimum, 1, Min(maximum_frameworks, Len(with_minimum)))

\* "; ".join(reasons)
RECURSIVE JoinReasons(_)
JoinReasons(reasons) ==
  IF Len(reasons) = 1 THEN reasons[1]
  ELSE reasons[1] \o "; " \o JoinReasons(Tail(reasons))

_generate_selection_reason(framework, doc_type, conf, indicators) ==
  LET applicable == IF framework \in DOMAIN framework_registry
                    THEN Range(framework_registry[framework].applicable_documents)
                    ELSE {}
      type_match == IF doc_type \in applicable
                    THEN <<"Document type '" \o doc_type \o "' matches framework scope">>
                    ELSE <<>>
      content ==
        IF framework = "constitutional_analysis"
           /\ Get(indicators, "constitutional_relevance", FALSE)
          THEN <<"Constitutional content detected">>
        ELSE IF framework = "privacy_rights_analysis"
                /\ Get(indicators, "privacy_terms", <<>>) # <<>>
          THEN <<"Privacy-related content identified">>
        ELSE IF framework = "dpdpa_compliance"
                /\ Get(indicators, "dpdpa_relevance", FALSE)
          THEN <<"DPDPA compliance requirements identified">>
        ELSE <<>>
      high == IF conf * 10 >= 7 * ScoreUnit
              THEN <<"High classification confidence supports framework application">>
              ELSE <<>>
      reasons == type_match \o content \o high
  IN  JoinReasons(IF reasons = <<>>
                  THEN <<"Selected based on document analysis and legal framework requirements">>
                  ELSE reasons)

\* The candidate list before the combination rules: primary frameworks,
\* then content-based ones, then the default for confident classifications.
\* A variant of CandidateFrameworks whose default inclusion needs a
\* confidence above 0.5.
CandidateFrameworksAboveHalf(doc_type, conf, indicators) ==
  LET primary_frameworks == _get_primary_frameworks(doc_type, conf)
      content_frameworks == _get_content_based_frameworks(indicators)
      selected_frameworks == ExtendNew(primary_frameworks, content_frameworks)
  IN  IF conf * 10 > 5 * ScoreUnit
      THEN AppendNew(selected_frameworks, "constitutional_analysis")
      ELSE selected_frameworks

\* The frameworks gathered before the combination rules: those of the
\* document type, those of the content indicators, and the default one.
CandidateFrameworks(doc_type, conf, indicators) ==
  LET primary_frameworks == _get_primary_frameworks(doc_type, conf)
      content_frameworks == _get_content_based_frameworks(indicators)
      selected_frameworks == ExtendNew(primary_frameworks, content_frameworks)
  IN  IF conf * 10 >= 5 * ScoreUnit
      THEN AppendNew(selected_frameworks, "constitutional_analysis")
      ELSE selected_frameworks

\* select_frameworks; ci is a dict or None.  The selection_timestamp field
\* (the wall clock) is left out.
select_frameworks(doc_type, conf, ci) ==
  LET indicators == IF ci.tag = "None" THEN EmptyDict ELSE ci.val    \* content_indicators or {}
      selected_frameworks == CandidateFrameworks(doc_type, conf, indicators)
      combined_frameworks == _apply_combination_rules(doc_type, selected_frameworks)
      final_frameworks == _prioritize_and_limit_frameworks(combined_frameworks)
  IN  [selected_frameworks  |-> final_frameworks,
       framework_count      |-> Len(final_frameworks),
       selection_confidence |-> conf,
       selection_reasons    |->
         [f \in Range(final_frameworks) |->
            _generate_selection_reason(f, doc_type, conf, indicators)],
       document_type        |-> doc_type]

---------------------------------------------------------------------------
(* scoring_engine.py: UniversalLegalScoringEngine                           *)
(* A criterion score is a whole number of points (0..100); a criterion or  *)
(* category weight 0.35 is held as 35 (hundredths); a category score is    *)
(* held in hundredths of a point (75.5 points = 7550).                     *)

Points == 10 * 10                     \* one point, in hundredths of a point

scoring_criteria ==
     "constitutional_compliance" :> [
       weight |-> 40,
       criteria |-> <<
         [name |-> "fundamental_rights_adherence", weight |-> 30,
          scoring_method |-> "rights_protection_analysis"],
         [name |-> "constitutional_validity", weight |-> 30,
          scoring_method |-> "validity_framework_analysis"],
         [name |-> "procedural_compliance", weight |-> 40,
          scoring_method |-> "due_process_evaluation"]>>]
  @@ "privacy_compliance" :> [
       weight |-> 30,
       criteria |-> <<
         [name |-> "article_21_compliance", weight |-> 40,
          scoring_method |-> "puttaswamy_framework_assessment"],
         [name |-> "consent_mechanism", weight |-> 30,
          scoring_method |-> "consent_validity_analysis"],
         [name |-> "transparency", weight |-> 30,
          scoring_method |-> "disclosure_adequacy_assessment"]>>]
  @@ "dpdpa_compliance" :> [
       weight |-> 30,
       criteria |-> <<
         [name |-> "lawful_basis", weight |-> 35,
          scoring_method |-> "lawful_processing_assessment"],
         [name |-> "data_fiduciary_obligations", weight |-> 35,
          scoring_method |-> "fiduciary_compliance_analysis"],
         [name |-> "data_principal_rights", weight |-> 30,
          scoring_method |-> "principal_rights_protection"]>>]

RiskLevelOrder == <<"very_low", "low", "medium", "high", "very_high">>

\* Thresholds in points.
risk_thresholds ==
     "constitutional_risk" :> [very_low |-> 90, low |-> 75, medium |-> 60, high |-> 40, very_high |-> 0]
  @@ "privacy_risk"        :> [very_low |-> 85, low |-> 70, medium |-> 55, high |-> 35, very_high |-> 0]
  @@ "compliance_risk"     :> [very_low |-> 88, low |-> 73, medium |-> 58, high |-> 38, very_high |-> 0]
  @@ "overall_risk"        :> [very_low |-> 87, low |-> 72, medium |-> 57, high |-> 37, very_high |-> 0]

Clamp100(score) == Min(100, Max(0, score))

\* A scoring method either returns {score, issues, recommendations} or raises.
Returned(score, issues, recommendations) ==
  [tag |-> "ok", score |-> score, issues |-> issues, recommendations |-> recommendations]
Raised(message) == [tag |-> "raised", message |-> message]

\* analysis.get("indian_legal_indicators", {}) followed by the first .get on
\* it: {} for a missing key, the dict for a dict, AttributeError for None.
NoneHasNoGet == "'NoneType' object has no attribute 'get'"

IndicatorsOf(analysis) ==
  IF analysis.indian_legal_indicators.tag = "dict"
  THEN analysis.indian_legal_indicators.val
  ELSE EmptyDict

_score_fundamental_rights_protection(config, analysis) ==
  IF analysis.indian_legal_indicators.tag = "None" THEN Raised(NoneHasNoGet)
  ELSE
    LET constitutional_indicators == IndicatorsOf(analysis)
        constitutional_relevance ==
          Get(constitutional_indicators, "constitutional_relevance", FALSE)
        article_mentions == Get(constitutional_indicators, "article_mentions", <<>>)
        score == 70 + (IF constitutional_relevance THEN 15 ELSE -10)
                    + (IF article_mentions # <<>> THEN Len(article_mentions) * 3 ELSE 0)
    IN  Returned(
          Clamp100(score),
          (IF constitutional_relevance THEN <<>>
           ELSE <<"Constitutional relevance not clearly established">>)
          \o (IF article_mentions # <<>> THEN <<>>
              ELSE <<"No constitutional articles specifically referenced">>),
          IF article_mentions # <<>> THEN <<>>
          ELSE <<"Reference relevant constitutional provisions">>)

_score_privacy_rights_compliance(config, analysis) ==
  IF analysis.indian_legal_indicators.tag = "None" THEN Raised(NoneHasNoGet)
  ELSE
    LET privacy_indicators == IndicatorsOf(analysis)
        privacy_terms == Get(privacy_indicators, "privacy_terms", <<>>)
        dpdpa_relevance == Get(privacy_indicators, "dpdpa_relevance", FALSE)
        score == 60 + (IF privacy_terms # <<>> THEN Len(privacy_terms) * 8 ELSE -15)
                    + (IF dpdpa_relevance THEN 15 ELSE 0)
    IN  Returned(
          Clamp100(score),
          (IF privacy_terms # <<>> THEN <<>>
           ELSE <<"Privacy protection measures not adequately addressed">>)
          \o (IF dpdpa_relevance THEN <<>>
              ELSE <<"DPDPA compliance requirements not addressed">>),
          (IF privacy_terms # <<>> THEN <<>>
           ELSE <<"Implement comprehensive privacy protection measures">>)
          \o (IF dpdpa_relevance THEN <<>>
              ELSE <<"Implement DPDPA 2023 compliance measures">>))

\* enhanced_chunks is held as the list of the chunks' "text" values.
_score_dpdpa_lawful_basis(config, analysis) ==
 IF analysis.enhanced_chunks.tag = "None" THEN Raised("'NoneType' object is not iterable")
 ELSE
  LET text_chunks == IF analysis.enhanced_chunks.tag = "list"
                     THEN analysis.enhanced_chunks.val
                     ELSE <<>>
      consent_mentions ==
        Cardinality({i \in DOMAIN text_chunks : StrIn("consent", lower(text_chunks[i]))})
      lawful_basis_mentions ==
        Cardinality({i \in DOMAIN text_chunks :
                       \E term \in {"lawful basis", "legitimate interest"} :
                          StrIn(term, lower(text_chunks[i]))})
      score == 65 + (IF consent_mentions > 0 THEN 15 ELSE 0)
                  + (IF lawful_basis_mentions > 0 THEN 10 ELSE 0)
  IN  Returned(
        Clamp100(score),
        (IF consent_mentions > 0 THEN <<>>
         ELSE <<"No clear consent mechanism identified">>)
        \o (IF lawful_basis_mentions > 0 THEN <<>>
            ELSE <<"Lawful basis for processing not clearly established">>),
        (IF consent_mentions > 0 THEN <<>>
         ELSE <<"Implement clear consent collection procedures">>)
        \o (IF lawful_basis_mentions > 0 THEN <<>>
            ELSE <<"Establish and document lawful basis for data processing">>))

_default_scoring_method(config, analysis) ==
  Returned(65, <<>>, <<"Manual review recommended for detailed assessment">>)

\* What _score_criterion returns for the outcome of the scoring method: its
\* score, issues and recommendations, or, when it raised, the default score
\* with the error as the only issue.
\* A criterion result that scores a failed method as 0.
CriterionResultZeroOnError(criterion_name, scoring_method, score_result) ==
  IF score_result.tag = "ok"
  THEN [score |-> score_result.score,
        issues |-> score_result.issues,
        recommendations |-> score_result.recommendations,
        criterion |-> criterion_name,
        method |-> scoring_method]
  ELSE [score |-> 0,
        issues |-> <<"Scoring error for " \o criterion_name \o ": "
                     \o score_result.message>>,
        recommendations |-> <<>>,
        criterion |-> criterion_name,
        method |-> scoring_method]
CriterionResult(criterion_name, scoring_method, score_result) ==
  IF score_result.tag = "ok"
  THEN [score |-> score_result.score,
        issues |-> score_result.issues,
        recommendations |-> score_result.recommendations,
        criterion |-> criterion_name,
        method |-> scoring_method]
  ELSE [score |-> 65,          \* base_score keeps its default
        issues |-> <<"Scoring error for " \o criterion_name \o ": "
                     \o score_result.message>>,
        recommendations |-> <<>>,
        criterion |-> criterion_name,
        method |-> scoring_method]

_score_criterion(criterion_name, criterion_config, analysis, framework) ==
  LET scoring_method == Get(criterion_config, "scoring_method", "default")
  IN  CriterionResult(
        criterion_name, scoring_method,
        IF scoring_method = "rights_protection_analysis"
          THEN _score_fundamental_rights_protection(criterion_config, analysis)
        ELSE IF scoring_method = "puttaswamy_framework_assessment"
          THEN _score_privacy_rights_compliance(criterion_config, analysis)
        ELSE IF scoring_method = "lawful_processing_assessment"
          THEN _score_dpdpa_lawful_basis(criterion_config, analysis)
        ELSE _default_scoring_method(criterion_config, analysis))

_map_framework_to_category(framework) ==
  LET mapping == "constitutional_analysis" :> "constitutional_compliance"
              @@ "privacy_rights_analysis" :> "privacy_compliance"
              @@ "dpdpa_compliance"        :> "dpdpa_compliance"
              @@ "administrative_law"      :> "constitutional_compliance"
              @@ "general_legal_analysis"  :> "constitutional_compliance"
  IN  Get(mapping, framework, "constitutional_compliance")

DefaultCategoryWeight == 33

_get_category_weight(category) ==
  IF category \in DOMAIN scoring_criteria
  THEN scoring_criteria[category].weight
  ELSE DefaultCategoryWeight

\* sum of f[i] over the indices of a sequence
RECURSIVE SumSeq(_)
SumSeq(seq) == IF seq = <<>> THEN 0 ELSE Head(seq) + SumSeq(Tail(seq))

RECURSIVE Flatten(_)
Flatten(seqs) == IF seqs = <<>> THEN <<>> ELSE Head(seqs) \o Flatten(Tail(seqs))

\* The dict _score_framework_category returns for the scored criteria.
CategoryResult(framework, category_name, criteria, scored) ==
  [tag |-> "dict",
   score |-> Min(100 * Points,
                 Max(0, SumSeq([i \in DOMAIN criteria |->
                                  scored[i].score * criteria[i].weight]))),
   criterion_scores |-> scored,
   issues |-> Flatten([i \in DOMAIN criteria |-> scored[i].issues]),
   recommendations |-> Flatten([i \in DOMAIN criteria |-> scored[i].recommendations]),
   category |-> category_name,
   framework |-> framework]

\* The criteria of a category, each scored, in the order of the dict.
ScoreCriteria(criteria, analysis, framework) ==
  [i \in DOMAIN criteria |->
     _score_criterion(criteria[i].name, criteria[i], analysis, framework)]

\* The category's record, or Missing for None (a category without criteria).
_score_framework_category(framework, analysis) ==
  IF _map_framework_to_category(framework) \notin DOMAIN scoring_criteria THEN Missing
  ELSE CategoryResult(
         framework, _map_framework_to_category(framework),
         scoring_criteria[_map_framework_to_category(framework)].criteria,
         ScoreCriteria(scoring_criteria[_map_framework_to_category(framework)].criteria,
                       analysis, framework))

\* A variant of AddCategoryScore that overwrites total_weight with the
\* category's weight where the loop adds to it.
AddCategoryScoreLastWeight(acc, category_name, category_score) ==
  IF category_score.tag = "missing" THEN acc
  ELSE [category_keys |-> AppendNew(acc.category_keys, category_name),
        category_scores |->
          [c \in DOMAIN acc.category_scores \cup {category_name} |->
             IF c = category_name THEN category_score ELSE acc.category_scores[c]],
        total_weighted_score |->
          acc.total_weighted_score
          + category_score.score * _get_category_weight(category_name),
        total_weight |-> _get_category_weight(category_name),
        critical_issues |-> acc.critical_issues \o category_score.issues,
        recommendations |-> acc.recommendations \o category_score.recommendations]

\* The loop body once category_score is known: nothing for None, else the
\* category's entry is (re)written and its weighted score and weight are
\* added to the totals.  total_weighted_score is in units of 1/(100*Points)
\* and total_weight in hundredths.
\* A loop that keeps the first entry written for a category.
AddCategoryScoreFirstWrite(acc, category_name, category_score) ==
  IF category_score.tag = "missing" THEN acc
  ELSE [category_keys |-> AppendNew(acc.category_keys, category_name),
        category_scores |->
          [c \in DOMAIN acc.category_scores \cup {category_name} |->
             IF c \in DOMAIN acc.category_scores THEN acc.category_scores[c]
             ELSE category_score],
        total_weighted_score |->
          acc.total_weighted_score
          + category_score.score * _get_category_weight(category_name),
        total_weight |-> acc.total_weight + _get_category_weight(category_name),
        critical_issues |-> acc.critical_issues \o category_score.issues,
        recommendations |-> acc.recommendations \o category_score.recommendations]
AddCategoryScore(acc, category_name, category_score) ==
  IF category_score.tag = "missing" THEN acc
  ELSE [category_keys |-> AppendNew(acc.category_keys, category_name),
        category_scores |->
          [c \in DOMAIN acc.category_scores \cup {category_name} |->
             IF c = category_name THEN category_score ELSE acc.category_scores[c]],
        total_weighted_score |->
          acc.total_weighted_score
          + category_score.score * _get_category_weight(category_name),
        total_weight |-> acc.total_weight + _get_category_weight(category_name),
        critical_issues |-> acc.critical_issues \o category_score.issues,
        recommendations |-> acc.recommendations \o category_score.recommendations]

\* One pass of the loop over frameworks_applied.
ScoreOneFramework(acc, framework, analysis) ==
  AddCategoryScore(acc, _map_framework_to_category(framework),
                   _score_framework_category(framework, analysis))

RECURSIVE ScoreFrameworks(_, _, _)
ScoreFrameworks(acc, frameworks, analysis) ==
  IF frameworks = <<>> THEN acc
  ELSE ScoreFrameworks(ScoreOneFramework(acc, Head(frameworks), analysis),
                       Tail(frameworks), analysis)

\* A score as a fraction num/den of hundredths of a point (den > 0); below
\* says that the float the program holds lies just under that exact value.
Fraction(num, den) == [num |-> num, den |-> den, below |-> FALSE]

\* score >= points
AtLeast(score, points) ==
  \/ score.num > points * Points * score.den
  \/ score.num = points * Points * score.den /\ ~score.below

\* How total_weighted_score / total_weight can round.  Sums of products with
\* the weights 0.4 and 0.3 are not exact in binary, so the quotient may lie
\* just under the exact value; that is observable only where the exact value
\* is a whole number of points, the thresholds being whole numbers.
QuotientBelow(total_weighted_score, total_weight) ==
  IF total_weight > 0 /\ total_weighted_score % (Points * total_weight) = 0
  THEN BOOLEAN
  ELSE {FALSE}

OverallScore(total_weighted_score, total_weight, below) ==
  IF total_weight > 0
  THEN [num |-> total_weighted_score, den |-> total_weight, below |-> below]
  ELSE Fraction(0, 1)

\* _determine_compliance_level taking a level only when the score exceeds its bound.
ComplianceLevelAboveBound(overall_score) ==
  LET under == [overall_score EXCEPT !.below = TRUE]
  IN  IF AtLeast(under, 90) THEN "excellent"
      ELSE IF AtLeast(under, 80) THEN "good"
      ELSE IF AtLeast(under, 70) THEN "satisfactory"
      ELSE IF AtLeast(under, 60) THEN "needs_improvement"
      ELSE "poor"
_determine_compliance_level(overall_score) ==
  IF AtLeast(overall_score, 90) THEN "excellent"
  ELSE IF AtLeast(overall_score, 80) THEN "good"
  ELSE IF AtLeast(overall_score, 70) THEN "satisfactory"
  ELSE IF AtLeast(overall_score, 60) THEN "needs_improvement"
  ELSE "poor"

RECURSIVE FirstLevel(_, _, _)
FirstLevel(thresholds, score, i) ==
  IF i > Len(RiskLevelOrder) THEN "very_high"
  ELSE IF AtLeast(score, thresholds[RiskLevelOrder[i]]) THEN RiskLevelOrder[i]
  ELSE FirstLevel(thresholds, score, i + 1)

\* _get_risk_level taking a level only when the score exceeds its threshold.
RiskLevelAboveThreshold(risk_type, score) ==
  LET thresholds == IF risk_type \in DOMAIN risk_thresholds
                    THEN risk_thresholds[risk_type]
                    ELSE risk_thresholds["overall_risk"]
  IN  FirstLevel(thresholds, [score EXCEPT !.below = TRUE], 1)
\* A lookup that falls back to the compliance_risk table.
RiskLevelFallbackCompliance(risk_type, score) ==
  LET thresholds == IF risk_type \in DOMAIN risk_thresholds
                    THEN risk_thresholds[risk_type]
                    ELSE risk_thresholds["compliance_risk"]
  IN  FirstLevel(thresholds, score, 1)
_get_risk_level(risk_type, score) ==
  LET thresholds == IF risk_type \in DOMAIN risk_thresholds
                    THEN risk_thresholds[risk_type]
                    ELSE risk_thresholds["overall_risk"]
  IN  FirstLevel(thresholds, score, 1)

\* category.split('_')[0]
RECURSIVE FirstToken(_)
FirstToken(s) ==
  IF s = "" \/ CharAt(s, 1) = "_" THEN ""
  ELSE CharAt(s, 1) \o FirstToken(SubSeq(s, 2, Len(s)))

\* category_keys is the insertion order of the dict category_scores.
\* A risk assessment that buckets every category with the compliance_risk table.
AssessRiskAsCompliance(category_keys, category_scores, overall_score) ==
  LET risk_of(c) == _get_risk_level("compliance_risk",
                                    Fraction(category_scores[c].score, 1))
      critical == SelectSeq(category_keys, LAMBDA c : risk_of(c) \in {"high", "very_high"})
  IN  [overall_risk_level |-> _get_risk_level("overall_risk", overall_score),
       category_risks |->
         [c \in DOMAIN category_scores |->
            [risk_level |-> risk_of(c),
             score |-> category_scores[c].score,
             issues |-> category_scores[c].issues]],
       critical_risks |->
         [i \in DOMAIN critical |->
            [category |-> critical[i],
             risk_level |-> risk_of(critical[i]),
             score |-> category_scores[critical[i]].score]]]
_assess_comprehensive_risk(category_keys, category_scores, overall_score) ==
  LET risk_of(c) == _get_risk_level(FirstToken(c) \o "_risk",
                                    Fraction(category_scores[c].score, 1))
      critical == SelectSeq(category_keys, LAMBDA c : risk_of(c) \in {"high", "very_high"})
  IN  [overall_risk_level |-> _get_risk_level("overall_risk", overall_score),
       category_risks |->
         [c \in DOMAIN category_scores |->
            [risk_level |-> risk_of(c),
             score |-> category_scores[c].score,
             issues |-> category_scores[c].issues]],
       critical_risks |->
         [i \in DOMAIN critical |->
            [category |-> critical[i],
             risk_level |-> risk_of(critical[i]),
             score |-> category_scores[critical[i]].score]]]


\* The keys of an indicator bundle whose values are flags; confidence_scores
\* holds a dict and the others hold lists.
FlagKeys == {"constitutional_relevance", "dpdpa_relevance"}

\* bool(v) of the value held under key
Truthy(key, v) ==
  IF key \in FlagKeys THEN v
  ELSE IF key = "confidence_scores" THEN DOMAIN v # {}
  ELSE v # <<>>

ConfidenceUnit == 72 * ScoreUnit      \* 1.0 as a scoring confidence

\* _calculate_scoring_confidence without the two caps at 1.0.
ScoringConfidenceUncapped(analysis, frameworks, category_scores) ==
  IF analysis.document_classification.tag = "None" THEN Raised(NoneHasNoGet)
  ELSE IF analysis.indian_legal_indicators.tag = "None"
    THEN Raised("'NoneType' object has no attribute 'values'")
  ELSE
    LET classification_record ==
          IF analysis.document_classification.tag = "dict"
          THEN analysis.document_classification.val ELSE EmptyDict
        indicators == IndicatorsOf(analysis)
    IN  [tag |-> "ok",
         value |-> 24 * Get(classification_record, "confidence", ScoreUnit \div 2)
                   + 8 * Len(frameworks) * ScoreUnit
                   + 3 * Cardinality({k \in DOMAIN indicators : Truthy(k, indicators[k])})
                       * ScoreUnit]

\* The mean of the three factors, in units of 1/ConfidenceUnit, or an
\* exception: None has neither .get nor .values.
_calculate_scoring_confidence(analysis, frameworks, category_scores) ==
  IF analysis.document_classification.tag = "None" THEN Raised(NoneHasNoGet)
  ELSE IF analysis.indian_legal_indicators.tag = "None"
    THEN Raised("'NoneType' object has no attribute 'values'")
  ELSE
    LET classification_record ==
          IF analysis.document_classification.tag = "dict"
          THEN analysis.document_classification.val ELSE EmptyDict
        classification_confidence == Get(classification_record, "confidence", ScoreUnit \div 2)
        framework_coverage == Min(3, Len(frameworks))                 \* thirds
        indicators == IndicatorsOf(analysis)
        content_richness ==                                           \* eighths
          Min(8, Cardinality({k \in DOMAIN indicators : Truthy(k, indicators[k])}))
    IN  [tag |-> "ok",
         value |-> 24 * classification_confidence
                   + 8 * framework_coverage * ScoreUnit
                   + 3 * content_richness * ScoreUnit]

InitialTotals ==
  [category_keys |-> <<>>, category_scores |-> EmptyDict,
   total_weighted_score |-> 0, total_weight |-> 0,
   critical_issues |-> <<>>, recommendations |-> <<>>]

\* The result record of calculate_comprehensive_score, or the exception that
\* leaves the call.  The scoring_timestamp field (the wall clock) and the
\* never-filled scoring_breakdown are left out.
ScoringResults(totals, overall_score, confidence_level) ==
  IF confidence_level.tag = "raised"
  THEN [tag |-> "raised", message |-> confidence_level.message]
  ELSE [tag |-> "returned",
        overall_score |-> overall_score,
        category_keys |-> totals.category_keys,
        category_scores |-> totals.category_scores,
        risk_assessment |->
          _assess_comprehensive_risk(totals.category_keys, totals.category_scores,
                                     overall_score),
        compliance_level |-> _determine_compliance_level(overall_score),
        critical_issues |-> totals.critical_issues,
        recommendations |-> totals.recommendations,
        confidence_level |-> confidence_level.value]

\* What follows the loop, given the totals it left.
AfterLoop(analysis, frameworks, totals, below) ==
  ScoringResults(totals,
                 OverallScore(totals.total_weighted_score, totals.total_weight, below),
                 _calculate_scoring_confidence(analysis, frameworks,
                                               totals.category_scores))

\* The results the call can have: one for each way the quotient can round.
calculate_comprehensive_score(analysis, frameworks) ==
  LET totals == ScoreFrameworks(InitialTotals, frameworks, analysis)
  IN  {AfterLoop(analysis, frameworks, totals, below) :
         below \in QuotientBelow(totals.total_weighted_score, totals.total_weight)}

---------------------------------------------------------------------------
(* Inputs of classify_with_confidence *)

MaxFragments == 2          \* fragments joined into one text
MaxFillerBlocks == 4       \* 25-word blocks of padding appended to a text

Fragments ==
  <<"Government of India Ministry of Law Notification No. X-123 dated the 5th day",
    "Department of Justice Gazette office memorandum Central Government Bharat Sarkar preamble signature seal",
    "Government of India Gazette notification",
    "Privacy Policy on personal data and consent under DPDPA 2023 for each data fiduciary",
    "Legal agreement and contract terms between parties with obligations under law">>

\* 25 words that hold no keyword, pattern or structure term
FillerBlock ==
  "zz zz zz zz zz zz zz zz zz zz zz zz zz zz zz zz zz zz zz zz zz zz zz zz zz"

\* " ".join(parts), the list halved at each step
RECURSIVE JoinWords(_)
JoinWords(parts) ==
  IF parts = <<>> THEN ""
  ELSE IF Len(parts) = 1 THEN parts[1]
  ELSE LET half == Len(parts) \div 2
       IN  JoinWords(SubSeq(parts, 1, half)) \o " "
           \o JoinWords(SubSeq(parts, half + 1, Len(parts)))

Fillers(n) == [i \in 1..n |-> FillerBlock]

\* s followed by n words that hold no keyword, pattern or structure term
Padded(s, n) == JoinWords(<<s>> \o [i \in 1..n |-> "zz"])

\* Texts whose scores lie at a bound or are equal as fractions, and texts
\* that hold characters outside ASCII or outside the letters, digits and
\* common punctuation: two types at 0.608 of which the float of the later
\* one is the larger (96 words); a best score of 0.2 whose float lies above
\* 0.2 (80 words); a best score of 0.4 whose float lies below 0.4 (96
\* words); whitespace other than the blank; an accented name; an amendment
\* title with an ampersand and with brackets.  Four texts of 100 words hold
\* the notification phrases of Fragments[1] and the terms of another type:
\* all of employment_contract (which scores 1.0), those of office_memorandum
\* (0.9267 against 0.6286), a few of employment_contract (0.5017 against
\* 0.4964), and all of employment_contract with all of government_notification
\* (both 1.0, the earlier type of the table returned).
EdgeTexts ==
  {Str(Padded("terms of employment signature guidelines salary body termination office memorandum header Legal departmental payment employer om employee Compensation", 78)),
   Str(Padded("deliverables Ministry of Supreme Court", 75)),
   Str(Padded("circular no guidelines header body", 91)),
   Str(Padded(Fragments[1] \o " Employment Agreement Terms of Employment Job Description Compensation employee employer salary designation position duties termination", 72)),
   Str(Padded(Fragments[1] \o " OFFICE MEMORANDUM O.M. No Circular No Guidelines instructions departmental header subject body signature", 74)),
   Str(Padded(Fragments[1] \o " Employment Agreement employee employer salary position duties", 80)),
   Str(Padded(Fragments[1] \o " " \o Fragments[2] \o " Employment Agreement Terms of Employment Job Description Compensation employee employer salary designation position duties termination", 59)),
   Str("legalagreementandcontracttermsunderlaw"),
   Str("Government of India Ministry of Law notification preamble"),
   Str("petition of State v. Émile"),
   Str("Constitution (One Hundred & First Amendment) Act"),
   Str("Constitution (Forty-Second [42nd] Amendment) Act")}

Texts ==
  {None, Str(""), Str("   "), Str("abc def"), Str("  abc def  "),
   Str("a b c d e"), Str("notification"),
   Str("\fabcdefghi\f"), Str(" abcdefghi")} \cup EdgeTexts \cup
  {Str(JoinWords(SelectSeq(Fragments, LAMBDA f : f \in chosen) \o Fillers(n))) :
     chosen \in {S \in SUBSET Range(Fragments) : Cardinality(S) <= MaxFragments},
     n \in 0..MaxFillerBlocks}

(* Inputs of select_frameworks *)

DocumentTypes ==
  Range(DocTypeOrder)
  \cup {"unknown", "data_processing_agreement", "policy_document",
        "non_disclosure_agreement", "tax_invoice"}

\* A dict entry that is absent, holds a falsy value or holds a truthy value.
Entry(key, choice, falsy, truthy) ==
  IF choice = "absent" THEN EmptyDict
  ELSE key :> (IF choice = "falsy" THEN falsy ELSE truthy)

Presence == {"absent", "falsy", "truthy"}

ContentIndicators ==
  {None} \cup
  {Dict(Entry("constitutional_relevance", c, FALSE, TRUE)
        @@ Entry("dpdpa_relevance", d, FALSE, TRUE)
        @@ Entry("privacy_terms", p, <<>>, <<"personal data">>)
        @@ Entry("government_terms", g, <<>>, <<"ministry">>)) :
     c \in Presence, d \in Presence, p \in Presence, g \in Presence}

(* Inputs of calculate_comprehensive_score *)

MaxFrameworksApplied == 3  \* length of frameworks_applied
MaxArticleMentions == 6    \* length of article_mentions
MaxPrivacyTerms == 5       \* length of privacy_terms

\* Every list of up to MaxFrameworksApplied names, and the longest list that
\* select_frameworks returns (maximum_frameworks names).
\* contract_law_analysis is a framework the category mapping does not name.
FrameworkLists ==
  UNION {[1..n -> {"constitutional_analysis", "privacy_rights_analysis",
                   "dpdpa_compliance", "administrative_law",
                   "contract_law_analysis"}] : n \in 0..MaxFrameworksApplied}
  \cup {<<"constitutional_analysis", "privacy_rights_analysis", "dpdpa_compliance",
          "administrative_law">>}

PrivacyTerms(n) == [i \in 1..n |-> "personal data"]

\* The bundle that document_processor._analyze_indian_legal_indicators
\* returns for the text
\*   "Article 21. Puttaswamy. DPDPA 2023. personal data. Government of India. whereas"
\* Every one of its ten fields is filled.  One pattern of each category
\* matches, once; re.findall gives the captured group "21" for the Article
\* pattern and the whole match for the others.  confidence_scores holds, for
\* each category, the number of matches over max(1, words / 100): 1.0 for
\* this text of eleven words.
FullBundle ==
  Dict("constitutional_references" :> <<"21">>
       @@ "indian_cases" :> <<"Puttaswamy">>
       @@ "indian_statutes" :> <<"DPDPA 2023">>
       @@ "privacy_terms" :> <<"personal data">>
       @@ "government_terms" :> <<"Government of India">>
       @@ "legal_concepts" :> <<"whereas">>
       @@ "confidence_scores" :>
            ("constitutional_references" :> Float(1, 1)
             @@ "indian_cases" :> Float(1, 1)
             @@ "indian_statutes" :> Float(1, 1)
             @@ "privacy_terms" :> Float(1, 1)
             @@ "government_terms" :> Float(1, 1)
             @@ "legal_concepts" :> Float(1, 1))
       @@ "article_mentions" :> <<21>>
       @@ "dpdpa_relevance" :> TRUE
       @@ "constitutional_relevance" :> TRUE)

\* The bundle that _analyze_indian_legal_indicators returns for the empty
\* text: no match, both flags False, and confidence_scores a dict of six
\* entries 0.0, which is the one truthy value of the bundle.
EmptyTextBundle ==
  Dict("constitutional_references" :> <<>>
       @@ "indian_cases" :> <<>>
       @@ "indian_statutes" :> <<>>
       @@ "privacy_terms" :> <<>>
       @@ "government_terms" :> <<>>
       @@ "legal_concepts" :> <<>>
       @@ "confidence_scores" :>
            ("constitutional_references" :> Float(0, 1)
             @@ "indian_cases" :> Float(0, 1)
             @@ "indian_statutes" :> Float(0, 1)
             @@ "privacy_terms" :> Float(0, 1)
             @@ "government_terms" :> Float(0, 1)
             @@ "legal_concepts" :> Float(0, 1))
       @@ "article_mentions" :> <<>>
       @@ "dpdpa_relevance" :> FALSE
       @@ "constitutional_relevance" :> FALSE)

\* The indicator bundles handed to calculate_comprehensive_score: no entry,
\* None, the empty dict, the two bundles above, and dicts that hold the four
\* fields the scoring methods read.
IndicatorBundles ==
  {Missing, None, Dict(EmptyDict), FullBundle, EmptyTextBundle} \cup
  {Dict("constitutional_relevance" :> c
        @@ "article_mentions" :> [i \in 1..a |-> 11 + i]
        @@ "privacy_terms" :> PrivacyTerms(p)
        @@ "dpdpa_relevance" :> d) :
     c \in BOOLEAN, a \in {0, MaxArticleMentions},
     p \in {0, 1, MaxPrivacyTerms}, d \in BOOLEAN}

\* Every indicator bundle with every chunk list, and every indicator bundle
\* with every classification record.
DocumentAnalyses ==
  {[indian_legal_indicators |-> b, enhanced_chunks |-> c,
    document_classification |-> Dict("confidence" :> 7 * (ScoreUnit \div 10))] :
     b \in IndicatorBundles,
     c \in {Missing, None, List(<<>>),
            List(<<"We process data only with your Consent">>),
            List(<<"Processing rests on a lawful basis", "Retention is limited">>),
            List(<<"Consent is recorded", "Legitimate interest is documented">>)}}
  \cup
  {[indian_legal_indicators |-> b, enhanced_chunks |-> List(<<>>),
    document_classification |-> k] :
     b \in IndicatorBundles,
     k \in {Missing, None, Dict(EmptyDict),
            Dict("confidence" :> 0), Dict("confidence" :> 7 * (ScoreUnit \div 10)),
            Dict("confidence" :> ScoreUnit)}}

---------------------------------------------------------------------------
(* The three operations, each as a call on drawn arguments *)

NoSelection ==
  [selected_frameworks |-> <<>>, framework_count |-> 0, selection_confidence |-> 0,
   selection_reasons |-> EmptyDict, document_type |-> ""]
NoScoring == [tag |-> "pending"]

ClassifierIdle ==
  /\ text = None
  /\ classification = GuardResult
  /\ dimension_scores = EmptyDict
  /\ failing_types = {}
SelectorIdle ==
  /\ document_type = ""
  /\ confidence = 0
  /\ content_indicators = None
  /\ selection = NoSelection
ScoringIdle ==
  /\ document_analysis = [indian_legal_indicators |-> Missing, enhanced_chunks |-> Missing,
                          document_classification |-> Missing]
  /\ frameworks_applied = <<>>
  /\ scoring_results = NoScoring
UtilitiesIdle ==
  /\ rated_type = ""
  /\ rated_score = 0
  /\ rated_level = ""
  /\ environment = EmptyDict
  /\ validation_results = EmptyDict
  /\ analysis_result = EmptyDict

Classify ==
  /\ pc = "classify"
  /\ dimension_scores' = IF GuardFires(text) THEN EmptyDict
                         ELSE ScoreAllTypes(text.val, failing_types)
  /\ classification' = classify_with_confidence(text, dimension_scores')
  /\ pc' = "classified"
  /\ UNCHANGED <<text, failing_types, document_type, confidence, content_indicators,
                 selection, document_analysis, frameworks_applied, scoring_results,
                 rated_type, rated_score, rated_level, environment,
                 validation_results, history,
                 analysis_result,
                 self>>

Select ==
  /\ pc = "select"
  /\ selection' = select_frameworks(document_type, confidence, content_indicators)
  /\ pc' = "selected"
  /\ UNCHANGED <<text, classification, dimension_scores, failing_types,
                 document_type, confidence, content_indicators, document_analysis,
                 frameworks_applied, scoring_results, rated_type, rated_score,
                 rated_level, environment, validation_results, history,
                 analysis_result,
                 self>>

Score ==
  /\ pc = "score"
  /\ scoring_results' \in calculate_comprehensive_score(document_analysis, frameworks_applied)
  /\ pc' = "scored"
  /\ UNCHANGED <<text, classification, dimension_scores, failing_types,
                 document_type, confidence, content_indicators, selection,
                 document_analysis, frameworks_applied, rated_type, rated_score,
                 rated_level, environment, validation_results, history,
                 analysis_result,
                 self>>

ClassifierInit ==
  /\ pc = "classify"
  /\ text \in Texts
  /\ classification = GuardResult
  /\ dimension_scores = EmptyDict
  /\ failing_types = {}
  /\ SelectorIdle
  /\ ScoringIdle
  /\ UtilitiesIdle
  /\ history = <<>>
  /\ self = [document_patterns |-> document_patterns,
             indian_legal_indicators |-> indian_legal_indicators,
             confidence_thresholds |-> confidence_thresholds]

SelectorInit ==
  /\ pc = "select"
  /\ document_type \in DocumentTypes
  /\ confidence \in           \* 0.0, 0.3, just below 0.5, 0.5, just below 0.7, 0.7, 1.0
       {0, 3 * (ScoreUnit \div 10), 5 * (ScoreUnit \div 10) - 1, 5 * (ScoreUnit \div 10),
        7 * (ScoreUnit \div 10) - 1, 7 * (ScoreUnit \div 10), ScoreUnit}
  /\ content_indicators \in ContentIndicators
  /\ selection = NoSelection
  /\ ClassifierIdle
  /\ ScoringIdle
  /\ UtilitiesIdle
  /\ history = <<>>
  /\ self = [framework_registry |-> framework_registry,
             application_rules |->
               [combination_rules |-> combination_rules,
                minimum_frameworks |-> minimum_frameworks,
                maximum_frameworks |-> maximum_frameworks]]

ScoringInit ==
  /\ pc = "score"
  /\ document_analysis \in DocumentAnalyses
  /\ frameworks_applied \in FrameworkLists
  /\ scoring_results = NoScoring
  /\ ClassifierIdle
  /\ SelectorIdle
  /\ UtilitiesIdle
  /\ history = <<>>
  /\ self = [scoring_criteria |-> scoring_criteria,
             risk_thresholds |-> risk_thresholds]

ClassifierSpec == ClassifierInit /\ [][Classify]_vars
SelectorSpec == SelectorInit /\ [][Select]_vars
ScoringSpec == ScoringInit /\ [][Score]_vars

----------------------------------------------------------------------------
(* _get_risk_level as a call on drawn arguments *)

\* Scores are drawn in tenths of a point, from 0.0 up to MaxRatedTenths / 10.
MaxRatedTenths == 1000

RatedScores == {Fraction(t * (Points \div 10), 1) : t \in 0..MaxRatedTenths}

Rate ==
  /\ pc = "rate"
  /\ rated_level' = _get_risk_level(rated_type, rated_score)
  /\ pc' = "rated"
  /\ UNCHANGED <<text, classification, dimension_scores, failing_types,
                 document_type, confidence, content_indicators, selection,
                 document_analysis, frameworks_applied, scoring_results, rated_type,
                 rated_score, environment, validation_results, history,
                 analysis_result,
                 self>>

\* The types drawn are the four of the table, and the type
\* _assess_comprehensive_risk derives for the category dpdpa_compliance,
\* which the table does not hold.
RiskInit ==
  /\ pc = "rate"
  /\ rated_type \in {"constitutional_risk", "privacy_risk", "compliance_risk",
                     "overall_risk", "dpdpa_risk"}
  /\ rated_score \in RatedScores
  /\ rated_level = ""
  /\ ClassifierIdle
  /\ SelectorIdle
  /\ ScoringIdle
  /\ environment = EmptyDict
  /\ validation_results = EmptyDict
  /\ analysis_result = EmptyDict
  /\ history = <<>>
  /\ self = [scoring_criteria |-> scoring_criteria,
             risk_thresholds |-> risk_thresholds]

RiskSpec == RiskInit /\ [][Rate]_vars

\* _determine_compliance_level on a drawn score, beside the scores that
\* calculate_comprehensive_score hands it.
Grade ==
  /\ pc = "grade"
  /\ rated_level' = _determine_compliance_level(rated_score)
  /\ pc' = "graded"
  /\ UNCHANGED <<text, classification, dimension_scores, failing_types,
                 document_type, confidence, content_indicators, selection,
                 document_analysis, frameworks_applied, scoring_results, rated_type,
                 rated_score, environment, validation_results, history,
                 analysis_result,
                 self>>

GradeInit ==
  /\ pc = "grade"
  /\ rated_type = ""
  /\ rated_score \in RatedScores
  /\ rated_level = ""
  /\ ClassifierIdle
  /\ SelectorIdle
  /\ ScoringIdle
  /\ environment = EmptyDict
  /\ validation_results = EmptyDict
  /\ analysis_result = EmptyDict
  /\ history = <<>>
  /\ self = [scoring_criteria |-> scoring_criteria,
             risk_thresholds |-> risk_thresholds]

ComplianceSpec == (ScoringInit \/ GradeInit) /\ [][Score \/ Grade]_vars

\* classify_with_confidence over a table in which the entries of some types
\* are malformed, so that scoring those types raises, on the texts of Texts
\* that hold no filler or the most filler.
DegradedInit ==
  /\ pc = "classify"
  /\ text \in
       {Str(JoinWords(SelectSeq(Fragments, LAMBDA f : f \in chosen) \o Fillers(n))) :
          chosen \in {S \in SUBSET Range(Fragments) : Cardinality(S) <= MaxFragments},
          n \in {0, MaxFillerBlocks}}
  /\ failing_types \in
       {{}, {"government_notification"}, {"privacy_policy"}, {"general_legal_document"},
        {"government_notification", "office_memorandum"}}
  /\ classification = GuardResult
  /\ dimension_scores = EmptyDict
  /\ SelectorIdle
  /\ ScoringIdle
  /\ UtilitiesIdle
  /\ history = <<>>
  /\ self = [document_patterns |-> document_patterns,
             indian_legal_indicators |-> indian_legal_indicators,
             confidence_thresholds |-> confidence_thresholds]

DegradedSpec == DegradedInit /\ [][Classify]_vars

----------------------------------------------------------------------------
(* utils/indian_legal_utils.py: validate_environment_variables *)

required_vars ==
     "neo4j" :> <<"NEO4J_URI", "NEO4J_USER", "NEO4J_PASSWORD">>
  @@ "groq"  :> <<"GROQ_API_KEY">>
  @@ "smtp"  :> <<"SMTP_SERVER", "SENDER_EMAIL", "SENDER_PASSWORD">>

\* A variant of validate_environment_variables that takes a variable set to
\* the empty string for configured.
ValidateAcceptingEmpty(environ) ==
  [category \in DOMAIN required_vars |->
     \A i \in DOMAIN required_vars[category] :
       environ[required_vars[category][i]].tag = "str"]

\* environ gives each variable its string, or Missing when it is unset;
\* os.getenv then returns None, which like "" is falsy.
validate_environment_variables(environ) ==
  [category \in DOMAIN required_vars |->
     \A i \in DOMAIN required_vars[category] :
       LET value == environ[required_vars[category][i]]      \* os.getenv(var)
       IN  value.tag = "str" /\ value.val # ""]

Validate ==
  /\ pc = "validate"
  /\ validation_results' = validate_environment_variables(environment)
  /\ pc' = "validated"
  /\ UNCHANGED <<text, classification, dimension_scores, failing_types,
                 document_type, confidence, content_indicators, selection,
                 document_analysis, frameworks_applied, scoring_results, rated_type,
                 rated_score, rated_level, environment, history,
                 analysis_result,
                 self>>

\* Every variable unset, set to the empty string or set to a value.
EnvironmentInit ==
  /\ pc = "validate"
  /\ environment \in
       [UNION {Range(required_vars[c]) : c \in DOMAIN required_vars}
          -> {Missing, Str(""), Str("configured")}]
  /\ validation_results = EmptyDict
  /\ ClassifierIdle
  /\ SelectorIdle
  /\ ScoringIdle
  /\ rated_type = ""
  /\ rated_score = 0
  /\ rated_level = ""
  /\ analysis_result = EmptyDict
  /\ history = <<>>
  /\ self = EmptyDict

EnvironmentSpec == EnvironmentInit /\ [][Validate]_vars

----------------------------------------------------------------------------
(* A session: calls of the three operations, one after another, on the same
   three engine objects.

   In a session the methods are taken statement by statement on the objects
   they act on.  The objects are those the engines hold (self), the mutable
   arguments the caller passed (args: a dict, a dict and a list; a str or a
   float cannot be changed), and the objects the call creates (locals, by
   method and variable name; a method's new return value is its "return").
   A name is bound to a reference, the path that leads from the objects to
   the object meant: `combination_rule` below is bound to
   <<"self", "application_rules", "combination_rules", doc_category>>, the
   list the table holds, and `combined` to a list of the call's own.  A
   statement that changes an object (a subscript assignment, append, extend,
   sort) is a Write at the reference its target name is bound to, so what a
   call does to the tables and to the arguments follows from its statements.
   A list or dict that is given an object holds that object's value; the
   methods never change an object through one name and read it through a
   container holding it.  Numbers and strings are held in locals too.  *)

\* The object that ref leads to.
RECURSIVE Read(_, _)
Read(objects, ref) ==
  IF Len(ref) = 0 THEN objects ELSE Read(objects[Head(ref)], Tail(ref))

\* The objects with value in the place ref leads to: an assignment to a
\* name, x[key] = value, or the new state of a list or dict changed in place.
RECURSIVE Write(_, _, _)
Write(objects, ref, value) ==
  IF Len(ref) = 0 THEN value
  ELSE IF DOMAIN objects # {} /\ Head(ref) \in DOMAIN objects
    THEN [objects EXCEPT ![Head(ref)] = Write(@, Tail(ref), value)]
  ELSE (Head(ref) :> Write(EmptyDict, Tail(ref), value)) @@ objects

\* Six statements in order (pass where there are fewer): each is taken on
\* the objects the one before it left, which are worked out first.
Then(objects, s1(_), s2(_), s3(_), s4(_), s5(_), s6(_)) ==
  LET o1 == s1(objects)
      o2 == s2(o1)
      o3 == s3(o2)
      o4 == s4(o3)
      o5 == s5(o4)
      o6 == s6(o5)
  IN  <<objects, o1, o2, o3, o4, o5, o6>>[7]

\* The statement that does nothing.
pass(objects) == objects

\* x.append(v) and x.extend(vs), x bound to ref
append(objects, ref, v) == Write(objects, ref, Append(Read(objects, ref), v))
extend(objects, ref, vs) == Write(objects, ref, Read(objects, ref) \o vs)

\* classify_with_confidence(text) on the objects: the objects it leaves, its
\* result, and the dimension scores of each type.  The scoring methods it
\* calls take a list of the table and only count matches in it.
classify_with_confidence_on(objects, t) ==
  IF GuardFires(t)
  THEN [objects |-> objects, result |-> GuardResult, dimension_scores |-> EmptyDict]
  ELSE
    LET frame == <<"locals", "classify_with_confidence">>
        classification_scores == frame \o <<"classification_scores">>
        n_words == WordCount(t.val)              \* len(text_words)
        \* _calculate_indian_legal_bonus(text): after the first k categories
        RECURSIVE bonus(_, _)
        bonus(o, k) ==
          IF k = 0 THEN Float(0, 1)
          ELSE LET patterns == Read(o, <<"self", "indian_legal_indicators",
                                         IndicatorOrder[k]>>)
               IN  IF \E i \in DOMAIN patterns : re_search(patterns[i], lower(t.val))
                   THEN FAdd(bonus(o, k - 1), Float(1, 10))
                   ELSE bonus(o, k - 1)
        indian_legal_bonus(o) == FMin(Float(5, 10), bonus(o, Len(IndicatorOrder)))
        \* One turn of for doc_type, criteria in self.document_patterns.items(),
        \* on the objects and the dimension scores of the types before
        turn(before, k) ==
          LET doc_type == DocTypeOrder[k]
              criteria == Read(before.objects, <<"self", "document_patterns", doc_type>>)
              scores == DimensionScores(t.val, criteria)
              indian_bonus == indian_legal_bonus(before.objects)
          IN  [objects |-> Write(before.objects, classification_scores \o <<doc_type>>,
                                 FinalScore(scores, criteria, indian_bonus, n_words)),
               dims |-> before.dims @@ (doc_type :> scores)]
        \* the turns lo..hi in order: the first half of them, then the rest
        \* on what the first half left
        RECURSIVE turns(_, _, _)
        turns(before, lo, hi) ==
          IF lo > hi THEN before
          ELSE IF lo = hi THEN turn(before, lo)
          ELSE LET half(o) == turns(o, lo, (lo + hi) \div 2)
                   rest(o) == turns(o, (lo + hi) \div 2 + 1, hi)
               IN  Then(before, half, rest, pass, pass, pass, pass)
        loop(o) ==
          turns([objects |-> Write(o, classification_scores, EmptyDict), dims |-> EmptyDict],
                1, Cardinality(DOMAIN Read(o, <<"self", "document_patterns">>)))
        \* what follows the loop
        returned(done) ==
          LET all_scores == Read(done.objects, classification_scores)
              winner == FirstMax(DocTypeOrder, all_scores, 1)   \* max(..., key=...get)
              thresholds == Read(done.objects, <<"self", "confidence_thresholds">>)
              threshold == IF winner \in DOMAIN thresholds
                           THEN thresholds[winner] ELSE thresholds["default"]
              best_type == IF FLess(all_scores[winner], Float(threshold, 10))
                           THEN IF FLess(Float(2, 10), all_scores[winner])
                                THEN "general_legal_document"
                                ELSE "unknown"
                           ELSE winner
          IN  [objects |-> done.objects,
               result |-> [document_type |-> best_type,
                           confidence    |-> all_scores[winner],
                           all_scores    |-> all_scores],
               dimension_scores |-> done.dims]
    IN  Then(objects,
             loop, returned, pass, pass, pass, pass)

\* A variant of _apply_combination_rules that starts from the rule's list
\* and adds the frameworks to it, where the code starts from a copy of the
\* frameworks and adds the rule's.
ApplyCombinationRulesOntoRule(objects, doc_type, frameworks) ==
  LET frame == <<"locals", "_apply_combination_rules">>
      doc_category == _categorize_document_type(doc_type)
      rules == <<"self", "application_rules", "combination_rules">>
      held == doc_category \in DOMAIN Read(objects, rules)
      combination_rule == IF held THEN rules \o <<doc_category>>
                          ELSE frame \o <<"combination_rule">>
      combined == combination_rule              \* combined = combination_rule
      RECURSIVE loop(_, _)
      loop(o, k) ==
        IF k > Len(Read(o, frameworks)) THEN o
        ELSE LET framework == Read(o, frameworks)[k]
             IN  loop(IF framework \in Range(Read(o, combined)) THEN o
                      ELSE append(o, combined, framework),
                      k + 1)
      done == loop(IF held THEN objects ELSE Write(objects, combination_rule, <<>>), 1)
  IN  Write(done, frame \o <<"combined">>, Read(done, combined))

\* _apply_combination_rules(document_type, frameworks): the objects it
\* leaves; the list it returns is its `combined`.
_apply_combination_rules_on(objects, doc_type, frameworks) ==
  LET frame == <<"locals", "_apply_combination_rules">>
      combined == frame \o <<"combined">>
      doc_category == _categorize_document_type(doc_type)
      rules == <<"self", "application_rules", "combination_rules">>
      \* .get(doc_category, []): the list the table holds, or a new list
      held == doc_category \in DOMAIN Read(objects, rules)
      combination_rule == IF held THEN rules \o <<doc_category>>
                          ELSE frame \o <<"combination_rule">>
      RECURSIVE loop(_, _)
      loop(o, k) ==                             \* for framework in combination_rule
        IF k > Len(Read(o, combination_rule)) THEN o
        ELSE LET framework == Read(o, combination_rule)[k]
             IN  loop(IF framework \in Range(Read(o, combined)) THEN o
                      ELSE append(o, combined, framework),
                      k + 1)
      copied == Write(objects, combined, Read(objects, frameworks))   \* list(frameworks)
  IN  loop(IF held THEN copied ELSE Write(copied, combination_rule, <<>>), 1)

\* select_frameworks(document_type, confidence, content_indicators) on the
\* objects, content_indicators being the object at args: the objects it
\* leaves and its result.  Each step takes the objects the steps before it
\* left.
select_frameworks_on(objects, doc_type, conf) ==
  LET frame == <<"locals", "select_frameworks">>
      selected_frameworks == frame \o <<"selected_frameworks">>
      framework_reasons == frame \o <<"framework_reasons">>
      registry == <<"self", "framework_registry">>
      \* content_indicators = content_indicators or {}: the dict passed, or
      \* a new one when None or an empty dict was passed
      passed == Read(objects, <<"args", "content_indicators">>)
      kept == passed.tag = "dict" /\ DOMAIN passed.val # {}
      given == IF kept THEN <<"args", "content_indicators", "val">>
               ELSE frame \o <<"content_indicators">>
      begin(o) ==
        LET created == Write(Write(o, selected_frameworks, <<>>),
                             framework_reasons, EmptyDict)
        IN  IF kept THEN created ELSE Write(created, given, EmptyDict)

      \* _get_primary_frameworks
      primary == <<"locals", "_get_primary_frameworks", "primary">>
      RECURSIVE primary_loop(_, _)
      primary_loop(o, k) ==                     \* for ... in self.framework_registry.items()
        IF k > Cardinality(DOMAIN Read(o, registry)) THEN o
        ELSE LET framework_name == FrameworkOrder[k]
                 framework_config == registry \o <<framework_name>>
             IN  primary_loop(
                   IF doc_type
                        \in Range(Get(Read(o, framework_config), "applicable_documents", <<>>))
                   THEN append(o, primary, framework_name)
                   ELSE o,
                   k + 1)
      _get_primary_frameworks_on(o) == primary_loop(Write(o, primary, <<>>), 1)
      \* selected_frameworks.extend(primary_frameworks)
      extend_selected(o) == extend(o, selected_frameworks, Read(o, primary))

      \* _get_content_based_frameworks
      frameworks == <<"locals", "_get_content_based_frameworks", "frameworks">>
      constitutional_content(o) ==
        IF Get(Read(o, given), "constitutional_relevance", FALSE)
        THEN append(o, frameworks, "constitutional_analysis")
        ELSE o
      privacy_content(o) ==
        IF Get(Read(o, given), "dpdpa_relevance", FALSE)
           \/ Get(Read(o, given), "privacy_terms", <<>>) # <<>>
        THEN extend(o, frameworks, <<"privacy_rights_analysis", "dpdpa_compliance">>)
        ELSE o
      government_content(o) ==
        IF Get(Read(o, given), "government_terms", <<>>) # <<>>
        THEN append(o, frameworks, "administrative_law")
        ELSE o
      _get_content_based_frameworks_on(o) ==
        Then(Write(o, frameworks, <<>>),
             constitutional_content, privacy_content, government_content, pass, pass, pass)
      RECURSIVE content_loop(_, _)
      content_loop(o, k) ==                     \* for framework in content_frameworks
        IF k > Len(Read(o, frameworks)) THEN o
        ELSE LET framework == Read(o, frameworks)[k]
             IN  content_loop(IF framework \in Range(Read(o, selected_frameworks)) THEN o
                              ELSE append(o, selected_frameworks, framework),
                              k + 1)
      \* the default for confident classifications
      add_default(o) ==
        IF conf * 10 >= 5 * ScoreUnit
           /\ "constitutional_analysis" \notin Range(Read(o, selected_frameworks))
        THEN append(o, selected_frameworks, "constitutional_analysis")
        ELSE o

      combined_frameworks == <<"locals", "_apply_combination_rules", "combined">>

      \* _prioritize_and_limit_frameworks
      prioritize == <<"locals", "_prioritize_and_limit_frameworks">>
      framework_priorities == prioritize \o <<"framework_priorities">>
      sorted_frameworks == prioritize \o <<"sorted_frameworks">>
      final_frameworks == prioritize \o <<"return">>
      RECURSIVE priority_loop(_, _)
      priority_loop(o, k) ==                    \* for framework in frameworks
        IF k > Len(Read(o, combined_frameworks)) THEN o
        ELSE LET framework == Read(o, combined_frameworks)[k]
                 held == Read(o, registry)
                 priority == IF framework \in DOMAIN held
                             THEN Get(held[framework], "priority", DefaultPriority)
                             ELSE DefaultPriority
             IN  priority_loop(append(o, framework_priorities, <<framework, priority>>),
                               k + 1)
      \* list.sort(key=lambda x: x[1]): ascending and stable
      RECURSIVE sorted(_)
      sorted(pairs) ==
        IF Len(pairs) = 0 THEN <<>>
        ELSE LET last == pairs[Len(pairs)]
                 front == sorted(SubSeq(pairs, 1, Len(pairs) - 1))
             IN  SelectSeq(front, LAMBDA x : x[2] <= last[2])
                 \o <<last>>
                 \o SelectSeq(front, LAMBDA x : x[2] > last[2])
      sort(o) == Write(o, framework_priorities, sorted(Read(o, framework_priorities)))
      RECURSIVE names(_)
      names(pairs) ==                           \* [f[0] for f in framework_priorities]
        IF Len(pairs) = 0 THEN <<>> ELSE <<pairs[1][1]>> \o names(Tail(pairs))
      extract(o) == Write(o, sorted_frameworks, names(Read(o, framework_priorities)))
      ensure_minimum(o) ==
        IF Len(Read(o, sorted_frameworks))
             < Read(o, <<"self", "application_rules", "minimum_frameworks">>)
           /\ "general_legal_analysis" \notin Range(Read(o, sorted_frameworks))
        THEN append(o, sorted_frameworks, "general_legal_analysis")
        ELSE o
      apply_maximum(o) ==                       \* sorted_frameworks[:max_frameworks]
        Write(o, final_frameworks,
              SubSeq(Read(o, sorted_frameworks), 1,
                     Min(Read(o, <<"self", "application_rules", "maximum_frameworks">>),
                         Len(Read(o, sorted_frameworks)))))
      _prioritize_and_limit_frameworks_on(o) ==
        Then(priority_loop(Write(o, framework_priorities, <<>>), 1),
             sort, extract, ensure_minimum, apply_maximum, pass, pass)

      \* _generate_selection_reason(framework, ...): the objects it leaves;
      \* the str it returns is the join of its reasons.
      reason == <<"locals", "_generate_selection_reason">>
      reasons == reason \o <<"reasons">>
      _generate_selection_reason_on(objects_before, framework) ==
        LET \* self.framework_registry.get(framework, {})
            known == framework \in DOMAIN Read(objects_before, registry)
            framework_config == IF known THEN registry \o <<framework>>
                                ELSE reason \o <<"framework_config">>
            created(o) == Write(IF known THEN o ELSE Write(o, framework_config, EmptyDict),
                                reasons, <<>>)
            type_match(o) ==
              IF doc_type
                   \in Range(Get(Read(o, framework_config), "applicable_documents", <<>>))
              THEN append(o, reasons,
                          "Document type '" \o doc_type \o "' matches framework scope")
              ELSE o
            content(o) ==
              IF framework = "constitutional_analysis"
                 /\ Get(Read(o, given), "constitutional_relevance", FALSE)
                THEN append(o, reasons, "Constitutional content detected")
              ELSE IF framework = "privacy_rights_analysis"
                      /\ Get(Read(o, given), "privacy_terms", <<>>) # <<>>
                THEN append(o, reasons, "Privacy-related content identified")
              ELSE IF framework = "dpdpa_compliance"
                      /\ Get(Read(o, given), "dpdpa_relevance", FALSE)
                THEN append(o, reasons, "DPDPA compliance requirements identified")
              ELSE o
            high(o) ==
              IF conf * 10 >= 7 * ScoreUnit
              THEN append(o, reasons,
                          "High classification confidence supports framework application")
              ELSE o
            default(o) ==
              IF Len(Read(o, reasons)) = 0
              THEN append(o, reasons,
                          "Selected based on document analysis and legal framework requirements")
              ELSE o
        IN  Then(created(objects_before),
                 type_match, content, high, default, pass, pass)
      RECURSIVE reason_loop(_, _)
      reason_loop(o, k) ==                      \* for framework in final_frameworks
        IF k > Len(Read(o, final_frameworks)) THEN o
        ELSE LET framework == Read(o, final_frameworks)[k]
                 returned == _generate_selection_reason_on(o, framework)
             IN  reason_loop(Write(returned, framework_reasons \o <<framework>>,
                                   JoinReasons(Read(returned, reasons))),
                             k + 1)

      add_content(o) == content_loop(o, 1)
      combine(o) == _apply_combination_rules_on(o, doc_type, selected_frameworks)
      give_reasons(o) == reason_loop(o, 1)
      done ==
        Then(Then(begin(objects),
             _get_primary_frameworks_on, extend_selected, _get_content_based_frameworks_on,
             add_content, add_default, combine),
             _prioritize_and_limit_frameworks_on, give_reasons, pass, pass, pass, pass)
  IN  [objects |-> done,
       result |-> [selected_frameworks  |-> Read(done, final_frameworks),
                   framework_count      |-> Len(Read(done, final_frameworks)),
                   selection_confidence |-> conf,
                   selection_reasons    |-> Read(done, framework_reasons),
                   document_type        |-> doc_type]]

\* _score_criterion(criterion_name, criterion_config, document_analysis,
\* framework), the two dicts given by reference: the objects it leaves; the
\* dict it returns is its "return".
_score_criterion_on(objects, criterion_name, criterion_config, doc_analysis, framework) ==
  LET frame == <<"locals", "_score_criterion">>
      scoring_method == Get(Read(objects, criterion_config), "scoring_method", "default")

      \* The scoring methods: the objects each leaves, and the exception that
      \* left it or the dict it returned (its "return").  Each step takes the
      \* objects the steps before it left.
      rights == <<"locals", "_score_fundamental_rights_protection">>
      _score_fundamental_rights_protection_on(before, config, analysis) ==
        LET score == rights \o <<"score">>
            issues == rights \o <<"issues">>
            recommendations == rights \o <<"recommendations">>
            \* analysis.get("indian_legal_indicators", {})
            held == Read(before, analysis \o <<"indian_legal_indicators">>)
            constitutional_indicators ==
              IF held.tag = "missing" THEN rights \o <<"constitutional_indicators">>
              ELSE analysis \o <<"indian_legal_indicators", "val">>
            created(o) == Write(Write(Write(o, score, 70), issues, <<>>),
                                recommendations, <<>>)
            bound(o) == IF held.tag = "missing"
                        THEN Write(o, constitutional_indicators, EmptyDict) ELSE o
            relevance(o) ==
              IF Get(Read(o, constitutional_indicators), "constitutional_relevance", FALSE)
              THEN Write(o, score, Read(o, score) + 15)
              ELSE append(Write(o, score, Read(o, score) - 10), issues,
                          "Constitutional relevance not clearly established")
            articles(o) ==
              LET article_mentions ==
                    Get(Read(o, constitutional_indicators), "article_mentions", <<>>)
              IN  IF article_mentions # <<>>
                  THEN Write(o, score, Read(o, score) + Len(article_mentions) * 3)
                  ELSE append(append(o, issues,
                                     "No constitutional articles specifically referenced"),
                              recommendations,
                              "Reference relevant constitutional provisions")
            returned(o) == Write(o, rights \o <<"return">>,
                                 [score |-> Clamp100(Read(o, score)),
                                  issues |-> Read(o, issues),
                                  recommendations |-> Read(o, recommendations)])
        IN  IF held.tag = "None"
            THEN [objects |-> created(before), raised |-> TRUE,
                  message |-> "'NoneType' object has no attribute 'get'"]
            ELSE [objects |-> Then(created(before),
                                   bound, relevance, articles, returned, pass, pass),
                  raised |-> FALSE, ret |-> rights \o <<"return">>]

      privacy == <<"locals", "_score_privacy_rights_compliance">>
      _score_privacy_rights_compliance_on(before, config, analysis) ==
        LET score == privacy \o <<"score">>
            issues == privacy \o <<"issues">>
            recommendations == privacy \o <<"recommendations">>
            held == Read(before, analysis \o <<"indian_legal_indicators">>)
            privacy_indicators ==
              IF held.tag = "missing" THEN privacy \o <<"privacy_indicators">>
              ELSE analysis \o <<"indian_legal_indicators", "val">>
            created(o) == Write(Write(Write(o, score, 60), issues, <<>>),
                                recommendations, <<>>)
            bound(o) == IF held.tag = "missing"
                        THEN Write(o, privacy_indicators, EmptyDict) ELSE o
            terms(o) ==
              LET privacy_terms == Get(Read(o, privacy_indicators), "privacy_terms", <<>>)
              IN  IF privacy_terms # <<>>
                  THEN Write(o, score, Read(o, score) + Len(privacy_terms) * 8)
                  ELSE append(append(Write(o, score, Read(o, score) - 15), issues,
                                     "Privacy protection measures not adequately addressed"),
                              recommendations,
                              "Implement comprehensive privacy protection measures")
            dpdpa(o) ==
              IF Get(Read(o, privacy_indicators), "dpdpa_relevance", FALSE)
              THEN Write(o, score, Read(o, score) + 15)
              ELSE append(append(o, issues, "DPDPA compliance requirements not addressed"),
                          recommendations, "Implement DPDPA 2023 compliance measures")
            returned(o) == Write(o, privacy \o <<"return">>,
                                 [score |-> Clamp100(Read(o, score)),
                                  issues |-> Read(o, issues),
                                  recommendations |-> Read(o, recommendations)])
        IN  IF held.tag = "None"
            THEN [objects |-> created(before), raised |-> TRUE,
                  message |-> "'NoneType' object has no attribute 'get'"]
            ELSE [objects |-> Then(created(before),
                                   bound, terms, dpdpa, returned, pass, pass),
                  raised |-> FALSE, ret |-> privacy \o <<"return">>]

      lawful == <<"locals", "_score_dpdpa_lawful_basis">>
      _score_dpdpa_lawful_basis_on(before, config, analysis) ==
        LET score == lawful \o <<"score">>
            issues == lawful \o <<"issues">>
            recommendations == lawful \o <<"recommendations">>
            consent_mentions == lawful \o <<"consent_mentions">>
            lawful_basis_mentions == lawful \o <<"lawful_basis_mentions">>
            \* analysis.get("enhanced_chunks", [])
            held == Read(before, analysis \o <<"enhanced_chunks">>)
            text_chunks == IF held.tag = "missing" THEN lawful \o <<"text_chunks">>
                           ELSE analysis \o <<"enhanced_chunks", "val">>
            created(o) == Write(Write(Write(o, score, 65), issues, <<>>),
                                recommendations, <<>>)
            bound(o) == Write(Write(IF held.tag = "missing" THEN Write(o, text_chunks, <<>>)
                                    ELSE o,
                                    consent_mentions, 0),
                              lawful_basis_mentions, 0)
            \* chunk.get("text", "").lower(); a chunk is held as its text
            chunk_text(o, k) == lower(Read(o, text_chunks \o <<k>>))
            count_consent(o, k) ==
              IF StrIn("consent", chunk_text(o, k))
              THEN Write(o, consent_mentions, Read(o, consent_mentions) + 1)
              ELSE o
            count_lawful_basis(o, k) ==
              IF \E term \in {"lawful basis", "legitimate interest"} :
                   StrIn(term, chunk_text(o, k))
              THEN Write(o, lawful_basis_mentions, Read(o, lawful_basis_mentions) + 1)
              ELSE o
            RECURSIVE loop(_, _)
            loop(o, k) ==                        \* for chunk in text_chunks
              IF k > Len(Read(o, text_chunks)) THEN o
              ELSE loop(count_lawful_basis(count_consent(o, k), k), k + 1)
            count(o) == loop(o, 1)
            consent(o) ==
              IF Read(o, consent_mentions) > 0
              THEN Write(o, score, Read(o, score) + 15)
              ELSE append(append(o, issues, "No clear consent mechanism identified"),
                          recommendations, "Implement clear consent collection procedures")
            lawful_basis(o) ==
              IF Read(o, lawful_basis_mentions) > 0
              THEN Write(o, score, Read(o, score) + 10)
              ELSE append(append(o, issues,
                                 "Lawful basis for processing not clearly established"),
                          recommendations,
                          "Establish and document lawful basis for data processing")
            returned(o) == Write(o, lawful \o <<"return">>,
                                 [score |-> Clamp100(Read(o, score)),
                                  issues |-> Read(o, issues),
                                  recommendations |-> Read(o, recommendations)])
        IN  IF held.tag = "None"
            THEN [objects |-> bound(created(before)), raised |-> TRUE,
                  message |-> "'NoneType' object is not iterable"]
            ELSE [objects |-> Then(created(before),
                                   bound, count, consent, lawful_basis, returned, pass),
                  raised |-> FALSE, ret |-> lawful \o <<"return">>]

      _default_scoring_method_on(o, config, analysis) ==
        [objects |-> Write(o, <<"locals", "_default_scoring_method", "return">>,
                           [score |-> 65, issues |-> <<>>,
                            recommendations |->
                              <<"Manual review recommended for detailed assessment">>]),
         raised |-> FALSE, ret |-> <<"locals", "_default_scoring_method", "return">>]

      begun == Write(Write(Write(objects, frame \o <<"base_score">>, 65),
                           frame \o <<"issues">>, <<>>),
                     frame \o <<"recommendations">>, <<>>)
      dispatch(o) ==
        IF scoring_method = "rights_protection_analysis"
          THEN _score_fundamental_rights_protection_on(o, criterion_config, doc_analysis)
        ELSE IF scoring_method = "puttaswamy_framework_assessment"
          THEN _score_privacy_rights_compliance_on(o, criterion_config, doc_analysis)
        ELSE IF scoring_method = "lawful_processing_assessment"
          THEN _score_dpdpa_lawful_basis_on(o, criterion_config, doc_analysis)
        ELSE _default_scoring_method_on(o, criterion_config, doc_analysis)
      \* try: base_score, issues and recommendations are bound to what
      \* score_result holds; except: the error is appended to this method's
      \* own issues
      take(called) ==
        LET score_result == called.ret
            issues == IF called.raised THEN frame \o <<"issues">>
                      ELSE score_result \o <<"issues">>
            recommendations == IF called.raised THEN frame \o <<"recommendations">>
                               ELSE score_result \o <<"recommendations">>
            bound(o) ==
              IF called.raised
              THEN append(o, frame \o <<"issues">>,
                          "Scoring error for " \o criterion_name \o ": " \o called.message)
              ELSE Write(o, frame \o <<"base_score">>,
                         Read(o, score_result \o <<"score">>))
            returned(o) ==
              Write(o, frame \o <<"return">>,
                    [score |-> Read(o, frame \o <<"base_score">>),
                     issues |-> Read(o, issues),
                     recommendations |-> Read(o, recommendations),
                     criterion |-> criterion_name,
                     method |-> scoring_method])
        IN  Then(called.objects,
                 bound, returned, pass, pass, pass, pass)
  IN  Then(begun,
           dispatch, take, pass, pass, pass, pass)

\* _score_framework_category(framework, document_analysis): the objects it
\* leaves, and whether it returned None or the dict that is its "return".
\* criterion_scores is held as the list of the criteria's results.
_score_framework_category_on(objects, framework, doc_analysis) ==
  LET frame == <<"locals", "_score_framework_category">>
      category_name == _map_framework_to_category(framework)
      category_config == <<"self", "scoring_criteria", category_name>>
      category_score == frame \o <<"category_score">>
      category_issues == frame \o <<"category_issues">>
      category_recommendations == frame \o <<"category_recommendations">>
      criterion_scores == frame \o <<"criterion_scores">>
      criterion_score == <<"locals", "_score_criterion", "return">>
      created(o) ==
        Write(Write(Write(Write(o, category_score, 0), category_issues, <<>>),
                    category_recommendations, <<>>),
              criterion_scores, <<>>)
      \* the statements of the loop's body, after _score_criterion returned
      keep(o) == append(o, criterion_scores, Read(o, criterion_score))
      add_weighted(o, criterion_config) ==
        Write(o, category_score,
              Read(o, category_score)
              + Read(o, criterion_score \o <<"score">>)
                * Read(o, criterion_config \o <<"weight">>))
      extend_issues(o) ==
        extend(o, category_issues, Read(o, criterion_score \o <<"issues">>))
      extend_recommendations(o) ==
        extend(o, category_recommendations,
               Read(o, criterion_score \o <<"recommendations">>))
      RECURSIVE loop(_, _)
      loop(o, k) ==                 \* for ... in category_config["criteria"].items()
        IF k > Len(Read(o, category_config \o <<"criteria">>)) THEN o
        ELSE
          LET criterion_config == category_config \o <<"criteria", k>>
              criterion_name == Read(o, criterion_config).name
              add(s) == add_weighted(s, criterion_config)
          IN  loop(Then(_score_criterion_on(o, criterion_name, criterion_config,
                                            doc_analysis, framework),
                        keep, add, extend_issues, extend_recommendations, pass, pass),
                   k + 1)
      returned(o) ==
        Write(o, frame \o <<"return">>,
              [tag |-> "dict",
               score |-> Min(100 * Points, Max(0, Read(o, category_score))),
               criterion_scores |-> Read(o, criterion_scores),
               issues |-> Read(o, category_issues),
               recommendations |-> Read(o, category_recommendations),
               category |-> category_name,
               framework |-> framework])
  IN  IF category_name \notin DOMAIN Read(objects, <<"self", "scoring_criteria">>)
      THEN [objects |-> objects, none |-> TRUE]
      ELSE [objects |-> Then(loop(created(objects), 1),
                             returned, pass, pass, pass, pass, pass), none |-> FALSE]

\* calculate_comprehensive_score(document_analysis, frameworks_applied) on
\* the objects, the two arguments being the objects at args: for each way
\* the quotient can round, the objects it leaves and its result or the
\* exception that left it.  category_keys is the insertion order of
\* scoring_results["category_scores"].
calculate_comprehensive_score_on(objects) ==
  LET frame == <<"locals", "calculate_comprehensive_score">>
      results == frame \o <<"scoring_results">>
      total_weighted_score == frame \o <<"total_weighted_score">>
      total_weight == frame \o <<"total_weight">>
      analysis == <<"args", "document_analysis">>
      frameworks == <<"args", "frameworks_applied">>
      category_score == <<"locals", "_score_framework_category", "return">>
      created(o) ==
        Write(Write(Write(o, results,
                          [overall_score |-> Fraction(0, 1),
                           category_keys |-> <<>>,
                           category_scores |-> EmptyDict,
                           risk_assessment |-> EmptyDict,
                           compliance_level |-> "unknown",
                           critical_issues |-> <<>>,
                           recommendations |-> <<>>,
                           confidence_level |-> 0]),
                    total_weighted_score, 0),
              total_weight, 0)
      \* _get_category_weight(category_name)
      _get_category_weight_on(o, category_name) ==
        LET criteria == Read(o, <<"self", "scoring_criteria">>)
        IN  IF category_name \in DOMAIN criteria
            THEN Get(criteria[category_name], "weight", DefaultCategoryWeight)
            ELSE DefaultCategoryWeight
      \* the statements of the loop's body, after _score_framework_category
      \* returned a dict
      keep(o, category_name) ==
        Write(Write(o, results \o <<"category_scores", category_name>>,
                    Read(o, category_score)),
              results \o <<"category_keys">>,
              AppendNew(Read(o, results \o <<"category_keys">>), category_name))
      add_weighted(o, category_name) ==
        Write(o, total_weighted_score,
              Read(o, total_weighted_score)
              + Read(o, category_score \o <<"score">>)
                * _get_category_weight_on(o, category_name))
      add_weight(o, category_name) ==
        Write(o, total_weight,
              Read(o, total_weight) + _get_category_weight_on(o, category_name))
      extend_issues(o) ==
        extend(o, results \o <<"critical_issues">>,
               Read(o, category_score \o <<"issues">>))
      extend_recommendations(o) ==
        extend(o, results \o <<"recommendations">>,
               Read(o, category_score \o <<"recommendations">>))
      take(called, category_name) ==            \* if category_score:
        LET weigh(o) == add_weight(add_weighted(o, category_name), category_name)
        IN  IF called.none THEN called.objects
            ELSE Then(keep(called.objects, category_name),
                      weigh, extend_issues, extend_recommendations, pass, pass, pass)
      RECURSIVE loop(_, _)
      loop(o, k) ==                             \* for framework in frameworks_applied
        IF k > Len(Read(o, frameworks)) THEN o
        ELSE
          LET framework == Read(o, frameworks)[k]
              taken(called) == take(called, _map_framework_to_category(framework))
          IN  loop(Then(_score_framework_category_on(o, framework, analysis),
                        taken, pass, pass, pass, pass, pass),
                   k + 1)

      \* _get_risk_level(risk_type, score)
      _get_risk_level_on(o, risk_type, score) ==
        LET held == Read(o, <<"self", "risk_thresholds">>)
            thresholds == IF risk_type \in DOMAIN held
                          THEN held[risk_type] ELSE held["overall_risk"]
        IN  FirstLevel(thresholds, score, 1)

      \* _assess_comprehensive_risk(category_scores, overall_score): the
      \* objects it leaves; the dict it returns is its risk_assessment.
      risk_assessment == <<"locals", "_assess_comprehensive_risk", "risk_assessment">>
      _assess_comprehensive_risk_on(o, category_scores, category_keys, overall_score) ==
        LET assess(s, category) ==
              LET score_data == category_scores \o <<category>>
                  score == Read(s, score_data \o <<"score">>)
                  risk_level == _get_risk_level_on(s, FirstToken(category) \o "_risk",
                                                   Fraction(score, 1))
                  kept == Write(s, risk_assessment \o <<"category_risks", category>>,
                                [risk_level |-> risk_level,
                                 score |-> score,
                                 issues |-> Read(s, score_data \o <<"issues">>)])
              IN  IF risk_level \in {"high", "very_high"}
                  THEN append(kept, risk_assessment \o <<"critical_risks">>,
                              [category |-> category,
                               risk_level |-> risk_level,
                               score |-> score])
                  ELSE kept
            RECURSIVE risk_loop(_, _)
            risk_loop(s, k) ==                  \* for ... in category_scores.items()
              IF k > Len(Read(s, category_keys)) THEN s
              ELSE risk_loop(assess(s, Read(s, category_keys)[k]), k + 1)
        IN  risk_loop(Write(o, risk_assessment,
                            [overall_risk_level |->
                               _get_risk_level_on(o, "overall_risk", overall_score),
                             category_risks |-> EmptyDict,
                             critical_risks |-> <<>>]),
                      1)

      \* _calculate_scoring_confidence(document_analysis, frameworks_applied,
      \* category_scores): the objects it leaves, and the exception that left
      \* it or the value it returned, in units of 1/ConfidenceUnit.
      confidence_factors == <<"locals", "_calculate_scoring_confidence", "confidence_factors">>
      _calculate_scoring_confidence_on(o) ==
        LET held_classification == Read(o, analysis \o <<"document_classification">>)
            held_indicators == Read(o, analysis \o <<"indian_legal_indicators">>)
            classification_confidence ==
              IF held_classification.tag = "dict"
              THEN Get(held_classification.val, "confidence", ScoreUnit \div 2)
              ELSE ScoreUnit \div 2
            indicators == IF held_indicators.tag = "dict"
                          THEN held_indicators.val ELSE EmptyDict
            content_richness ==                                              \* eighths
              Cardinality({key \in DOMAIN indicators :
                             Truthy(key, indicators[key])})
            begin(s) == Write(s, confidence_factors, <<>>)
            from_classification(s) ==
              append(s, confidence_factors, 72 * classification_confidence)
            from_coverage(s) ==                                                   \* thirds
              append(s, confidence_factors,
                     24 * Min(3, Len(Read(s, frameworks))) * ScoreUnit)
            from_richness(s) ==
              append(s, confidence_factors, 9 * Min(8, content_richness) * ScoreUnit)
            mean(s) == SumSeq(Read(s, confidence_factors))
                       \div Len(Read(s, confidence_factors))
        IN  IF held_classification.tag = "None"
              THEN [objects |-> begin(o), raised |-> TRUE,
                    message |-> "'NoneType' object has no attribute 'get'"]
            ELSE IF held_indicators.tag = "None"
              THEN [objects |-> from_coverage(from_classification(begin(o))), raised |-> TRUE,
                    message |-> "'NoneType' object has no attribute 'values'"]
            ELSE [objects |-> Then(begin(o),
                                   from_classification, from_coverage, from_richness, pass,
                                   pass, pass),
                  raised |-> FALSE,
                  value |-> mean(Then(begin(o),
                                      from_classification, from_coverage, from_richness, pass,
                                      pass, pass))]

      \* What follows the loop, the quotient lying just under its exact
      \* value or not.
      overall(o, below) ==
        Write(o, results \o <<"overall_score">>,
              OverallScore(Read(o, total_weighted_score), Read(o, total_weight), below))
      compliance(o) ==
        Write(o, results \o <<"compliance_level">>,
              _determine_compliance_level(Read(o, results \o <<"overall_score">>)))
      risk(o) ==
        _assess_comprehensive_risk_on(o, results \o <<"category_scores">>,
                                      results \o <<"category_keys">>,
                                      Read(o, results \o <<"overall_score">>))
      keep_risk(o) == Write(o, results \o <<"risk_assessment">>, Read(o, risk_assessment))
      finish(called) ==
        IF called.raised
        THEN [objects |-> called.objects,
              result |-> [tag |-> "raised", message |-> called.message]]
        ELSE [objects |-> Write(called.objects, results \o <<"confidence_level">>,
                                called.value),
              result |-> [tag |-> "returned"]
                         @@ Read(Write(called.objects, results \o <<"confidence_level">>,
                                       called.value),
                                 results)]
      after(scored) ==
        {LET divide(o) == overall(o, below)
         IN  Then(scored,
                  divide, compliance, risk, keep_risk, _calculate_scoring_confidence_on, finish) :
           below \in QuotientBelow(Read(scored, total_weighted_score),
                                   Read(scored, total_weight))}
  IN  Then(loop(created(objects), 1),
           after, pass, pass, pass, pass, pass)

\* The objects when a call is made: the engines' tables, and the arguments
\* the caller holds that a call could change.
Objects ==
  [self |-> self,
   args |-> [content_indicators |-> content_indicators,
             document_analysis |-> document_analysis,
             frameworks_applied |-> frameworks_applied],
   locals |-> EmptyDict]

\* The three calls of a session.  Each leaves self and the arguments as its
\* statements left them; text, document_type and confidence are a str or a
\* float (or None), which no statement can change.
ClassifyCall ==
  /\ pc = "classify"
  /\ \E returned \in {classify_with_confidence_on(Objects, text)} :
       /\ classification' = returned.result
       /\ dimension_scores' = returned.dimension_scores
       /\ self' = returned.objects.self
       /\ content_indicators' = returned.objects.args.content_indicators
       /\ document_analysis' = returned.objects.args.document_analysis
       /\ frameworks_applied' = returned.objects.args.frameworks_applied
  /\ pc' = "classified"
  /\ UNCHANGED <<text, failing_types, document_type, confidence, selection,
                 scoring_results, rated_type, rated_score, rated_level, environment,
                 validation_results, history, analysis_result>>

SelectCall ==
  /\ pc = "select"
  /\ \E returned \in {select_frameworks_on(Objects, document_type, confidence)} :
       /\ selection' = returned.result
       /\ self' = returned.objects.self
       /\ content_indicators' = returned.objects.args.content_indicators
       /\ document_analysis' = returned.objects.args.document_analysis
       /\ frameworks_applied' = returned.objects.args.frameworks_applied
  /\ pc' = "selected"
  /\ UNCHANGED <<text, classification, dimension_scores, failing_types, document_type,
                 confidence, scoring_results, rated_type, rated_score, rated_level,
                 environment, validation_results, history, analysis_result>>

ScoreCall ==
  /\ pc = "score"
  /\ \E returned \in calculate_comprehensive_score_on(Objects) :
       /\ scoring_results' = returned.result
       /\ self' = returned.objects.self
       /\ content_indicators' = returned.objects.args.content_indicators
       /\ document_analysis' = returned.objects.args.document_analysis
       /\ frameworks_applied' = returned.objects.args.frameworks_applied
  /\ pc' = "scored"
  /\ UNCHANGED <<text, classification, dimension_scores, failing_types, document_type,
                 confidence, selection, rated_type, rated_score, rated_level,
                 environment, validation_results, history, analysis_result>>

MaxCalls == 3      \* calls in a session

\* The calls completed so far, oldest first: those on record and the one
\* that has just returned.
CompletedCalls ==
  history \o
  (IF pc = "classified"
     THEN <<[op |-> "classify", args |-> <<text>>, result |-> classification]>>
   ELSE IF pc = "selected"
     THEN <<[op |-> "select",
             args |-> <<document_type, confidence, content_indicators>>,
             result |-> selection]>>
   ELSE IF pc = "scored"
     THEN <<[op |-> "score", args |-> <<document_analysis, frameworks_applied>>,
             result |-> scoring_results]>>
   ELSE <<>>)

\* The caller puts the call that returned on record and makes the next call:
\* it hands the operation its arguments.  What the earlier calls left in the
\* other variables, the engines' tables among them, stays there.
SessionBegin ==
  /\ pc \in {"idle", "classified", "selected", "scored"}
  /\ Len(CompletedCalls) < MaxCalls
  /\ history' = CompletedCalls
  /\ \/ /\ pc' = "classify"
        /\ text' \in {Str(Fragments[1]), Str(Fragments[3])}
        /\ UNCHANGED <<document_type, confidence, content_indicators,
                       document_analysis, frameworks_applied>>
     \/ /\ pc' = "select"
        /\ \E call \in {<<"tax_invoice", 4 * (ScoreUnit \div 10), None>>,
                        <<"privacy_policy", 7 * (ScoreUnit \div 10),
                          Dict("privacy_terms" :> PrivacyTerms(1))>>,
                        <<"government_notification", 8 * (ScoreUnit \div 10),
                          Dict("privacy_terms" :> PrivacyTerms(1))>>} :
             /\ document_type' = call[1]
             /\ confidence' = call[2]
             /\ content_indicators' = call[3]
        /\ UNCHANGED <<text, document_analysis, frameworks_applied>>
     \/ /\ pc' = "score"
        /\ \E call \in {<<[indian_legal_indicators |-> Dict(EmptyDict),
                           enhanced_chunks |-> Missing,
                           document_classification |-> Missing],
                          <<"constitutional_analysis">>>>,
                        <<[indian_legal_indicators |-> FullBundle,
                           enhanced_chunks |-> List(<<"Consent is recorded">>),
                           document_classification |-> Dict("confidence" :> ScoreUnit)],
                          <<"privacy_rights_analysis", "dpdpa_compliance">>>>,
                        <<[indian_legal_indicators |-> None,
                           enhanced_chunks |-> None,
                           document_classification |-> Dict(EmptyDict)],
                          <<"constitutional_analysis", "dpdpa_compliance">>>>} :
             /\ document_analysis' = call[1]
             /\ frameworks_applied' = call[2]
        /\ UNCHANGED <<text, document_type, confidence, content_indicators>>
  /\ UNCHANGED <<classification, dimension_scores, failing_types, selection,
                 scoring_results, rated_type, rated_score, rated_level,
                 environment, validation_results, analysis_result, self>>

\* The three engines are constructed: self holds the attributes of all
\* three (their names differ).  constitutional_articles, landmark_cases,
\* dpdpa_provisions and application_rules["primary_selection_criteria"],
\* which the three operations never read, are left out.
SessionInit ==
  /\ pc = "idle"
  /\ ClassifierIdle
  /\ SelectorIdle
  /\ ScoringIdle
  /\ UtilitiesIdle
  /\ history = <<>>
  /\ self = [document_patterns |-> document_patterns,
             indian_legal_indicators |-> indian_legal_indicators,
             confidence_thresholds |-> confidence_thresholds,
             framework_registry |-> framework_registry,
             application_rules |->
               [combination_rules |-> combination_rules,
                minimum_frameworks |-> minimum_frameworks,
                maximum_frameworks |-> maximum_frameworks,
                confidence_threshold |-> 3 * (ScoreUnit \div 10)],
             scoring_criteria |-> scoring_criteria,
             risk_thresholds |-> risk_thresholds]

SessionSpec ==
  SessionInit /\ [][SessionBegin \/ ClassifyCall \/ SelectCall \/ ScoreCall]_vars

\* ---------------------------------------------------------------------------
\* DocumentClassifier.analyze_document_comprehensive
\* ---------------------------------------------------------------------------

\* get_classification_confidence_level(confidence)
get_classification_confidence_level(c) ==
  IF ~FLess(c, Float(9, 10)) THEN "very_high"
  ELSE IF ~FLess(c, Float(7, 10)) THEN "high"
  ELSE IF ~FLess(c, Float(5, 10)) THEN "medium"
  ELSE IF ~FLess(c, Float(3, 10)) THEN "low"
  ELSE "very_low"

\* sorted(all_scores.items(), key=lambda x: x[1], reverse=True): the types by
\* descending score; the sort is stable, so equal scores keep the insertion
\* order of all_scores, which is the order of document_patterns.
sorted_scores(all_scores) ==
  LET order == SelectSeq(DocTypeOrder, LAMBDA d : d \in DOMAIN all_scores)
      Before(i, j) == \/ FLess(all_scores[order[j]], all_scores[order[i]])
                      \/ all_scores[order[i]] = all_scores[order[j]] /\ i < j
      Place(i) == 1 + Cardinality({j \in DOMAIN order : Before(j, i)})
  IN  [p \in DOMAIN order |-> order[CHOOSE i \in DOMAIN order : Place(i) = p]]

\* _get_alternative_classifications(all_scores, top_n): the entries of the
\* sorted list at indices 1 .. min(top_n + 1, len) - 1, counted from 0.
_get_alternative_classifications(all_scores, top_n) ==
  LET sorted == sorted_scores(all_scores)
      last == Min(top_n + 1, Len(sorted))
  IN  [k \in 1..(last - 1) |->
         [document_type    |-> sorted[k + 1],
          confidence       |-> all_scores[sorted[k + 1]],
          confidence_level |-> get_classification_confidence_level(all_scores[sorted[k + 1]])]]

\* analyze_document_comprehensive(text): the classification part of the report.
\* The context counts, the document characteristics, the reasoning sentence and
\* the recommendations are functions of text and of the primary classification
\* alone and are left out.  re.findall on None raises a TypeError.
analyze_document_comprehensive(t, result) ==
  IF t.tag # "str" THEN [tag |-> "raised", type |-> "TypeError"]
  ELSE
    [tag |-> "returned",
     primary_classification |->
       [document_type    |-> result.document_type,
        confidence       |-> result.confidence,
        confidence_level |-> get_classification_confidence_level(result.confidence)],
     alternative_classifications |->
       _get_alternative_classifications(result.all_scores, 3)]

Analyze ==
  /\ pc = "analyze"
  /\ dimension_scores' = IF GuardFires(text) THEN EmptyDict
                         ELSE ScoreAllTypes(text.val, failing_types)
  /\ classification' = classify_with_confidence(text, dimension_scores')
  /\ analysis_result' = analyze_document_comprehensive(text, classification')
  /\ pc' = "analyzed"
  /\ UNCHANGED <<text, failing_types, document_type, confidence, content_indicators,
                 selection, document_analysis, frameworks_applied, scoring_results,
                 rated_type, rated_score, rated_level, environment,
                 validation_results, history,
                 self>>

AnalyzerInit ==
  /\ pc = "analyze"
  /\ text \in Texts
  /\ classification = GuardResult
  /\ dimension_scores = EmptyDict
  /\ failing_types = {}
  /\ SelectorIdle
  /\ ScoringIdle
  /\ UtilitiesIdle
  /\ history = <<>>
  /\ self = [document_patterns |-> document_patterns,
             indian_legal_indicators |-> indian_legal_indicators,
             confidence_thresholds |-> confidence_thresholds]

AnalyzerSpec == AnalyzerInit /\ [][Analyze]_vars

---------------------------------------------------------------------------
(* Properties of classify_with_confidence, under ClassifierSpec *)

\* C1: for a text that is None, empty, or shorter than 10 characters once
\* stripped of surrounding whitespace, classify_with_confidence returns
\* ("unknown", 0.0, {}) and scores no document type.
C1_GuardReturnsUnknown ==
  (/\ pc = "classified"
   /\ (text.tag = "None" \/ text.val = "" \/ StrippedLen(text.val) < 10))
  => /\ classification.document_type = "unknown"
     /\ classification.confidence = Float(0, 1)
     /\ classification.all_scores = EmptyDict
     /\ dimension_scores = EmptyDict

\* A text of 10 or more characters that strips to fewer than 10 was
\* answered by the guard.
C1_Witness ==
  /\ pc = "classified"
  /\ text.tag = "str"
  /\ Len(text.val) >= 10
  /\ StrippedLen(text.val) < 10
  /\ classification = GuardResult
  /\ dimension_scores = EmptyDict

\* C2: with W the type holding the largest score s and t the threshold
\* configured for W (0.4 when none is), the returned type is W when s >= t,
\* "general_legal_document" when s < t and s > 0.2, "unknown" when s < t
\* and s <= 0.2; the returned confidence is s in all three cases.
C2_ThresholdFallback ==
  (pc = "classified" /\ classification.all_scores # EmptyDict)
  => LET scores == classification.all_scores
         W == FirstMax(DocTypeOrder, scores, 1)
         s == scores[W]
         t == Float(IF W \in DOMAIN confidence_thresholds
                    THEN confidence_thresholds[W] ELSE 4, 10)
     IN  /\ \A d \in DOMAIN scores : ~FLess(s, scores[d])
         /\ classification.confidence = s
         /\ ~FLess(s, t) => classification.document_type = W
         /\ (FLess(s, t) /\ FLess(Float(2, 10), s))
              => classification.document_type = "general_legal_document"
         /\ (FLess(s, t) /\ ~FLess(Float(2, 10), s))
              => classification.document_type = "unknown"

\* A winner that scored at least the default 0.4 but less than its own
\* threshold was relabelled, and the confidence is still its score.
C2_Witness ==
  /\ pc = "classified"
  /\ classification.all_scores # EmptyDict
  /\ classification.document_type = "general_legal_document"
  /\ ~FLess(classification.confidence, Float(4, 10))
  /\ classification.confidence =
       classification.all_scores[FirstMax(DocTypeOrder, classification.all_scores, 1)]
  /\ FirstMax(DocTypeOrder, classification.all_scores, 1) # "general_legal_document"

\* C3: the keyword, pattern and structure score of every registered type,
\* every value of all_scores and the returned confidence lie in [0,1].
C3_ScoresInUnitInterval ==
  pc = "classified"
  => /\ \A d \in DOMAIN dimension_scores :
          \A x \in {dimension_scores[d].keyword_score,
                     dimension_scores[d].pattern_score,
                     dimension_scores[d].structure_score} :
             ~FLess(x, Float(0, 1)) /\ ~FLess(Float(1, 1), x)
     /\ \A d \in DOMAIN classification.all_scores :
          /\ ~FLess(classification.all_scores[d], Float(0, 1))
          /\ ~FLess(Float(1, 1), classification.all_scores[d])
     /\ ~FLess(classification.confidence, Float(0, 1))
     /\ ~FLess(Float(1, 1), classification.confidence)

\* A text of 100 words or more whose weighted sum with the bonus exceeds
\* 1.0 was scored, and its confidence is the cap 1.0.
C3_Witness ==
  /\ pc = "classified"
  /\ DOMAIN dimension_scores = Range(DocTypeOrder)
  /\ classification.confidence = Float(1, 1)
  /\ \E d \in DOMAIN dimension_scores :
       FLess(Float(1, 1),
             FAdd(WeightedSum(dimension_scores[d], document_patterns[d]),
                  FMul(_calculate_indian_legal_bonus(text.val), Float(1, 10))))

\* C7, as stated: every text that contains "Government of India",
\* "Ministry of Law", "Notification No. X-123" and "dated the 5th day" is
\* classified as government_notification with confidence at least 0.7.
C7_NotificationPhrasesClassified ==
  (/\ pc = "classified"
   /\ text.tag = "str"
   /\ StrIn("Government of India", text.val)
   /\ StrIn("Ministry of Law", text.val)
   /\ StrIn("Notification No. X-123", text.val)
   /\ StrIn("dated the 5th day", text.val))
  => /\ classification.document_type = "government_notification"
     /\ ~FLess(classification.confidence, Float(7, 10))

\* C7, as the code has it: a text that contains the four phrases has, for
\* government_notification, a keyword score of at least 3/7, a pattern
\* score of at least 4/5 and a structure score of at least 1/4, and so a
\* score of at least 0.4964 times min(1, words/100), capped at 1.0; it is
\* returned as government_notification exactly when that type scores
\* highest (the first of the table among equals) with at least 0.7; it is
\* returned as another type of the table only when that type scores highest,
\* no lower than government_notification, and reaches its own threshold;
\* and as general_legal_document or unknown otherwise.
C7_NotificationPhrasesScored ==
  (/\ pc = "classified"
   /\ text.tag = "str"
   /\ StrIn("Government of India", text.val)
   /\ StrIn("Ministry of Law", text.val)
   /\ StrIn("Notification No. X-123", text.val)
   /\ StrIn("dated the 5th day", text.val))
  => LET dims == dimension_scores["government_notification"]
         scores == classification.all_scores
         W == FirstMax(DocTypeOrder, scores, 1)
     IN  /\ ~FLess(dims.keyword_score, Float(3, 7))
         /\ ~FLess(dims.pattern_score, Float(4, 5))
         /\ ~FLess(dims.structure_score, Float(1, 4))
         /\ ~FLess(scores["government_notification"],
                   FMin(Float(1, 1),
                        FMul(Float(4964, 10000),
                             FMin(Float(1, 1), Float(WordCount(text.val), 100)))))
         /\ classification.document_type = "government_notification"
              <=> (W = "government_notification" /\ ~FLess(scores[W], Float(7, 10)))
         /\ classification.document_type \in {W, "general_legal_document", "unknown"}
         /\ classification.document_type
               \notin {"government_notification", "general_legal_document", "unknown"}
              => /\ ~FLess(scores[W], scores["government_notification"])
                 /\ ~FLess(scores[W], Float(ThresholdOf(W), 10))
         /\ classification.confidence = scores[W]

\* A text of 100 words or more that holds the four phrases and nothing else
\* of the type scored 0.4964 for government_notification and was returned
\* as general_legal_document.
C7_Witness ==
  /\ pc = "classified"
  /\ text.tag = "str"
  /\ StrIn("Government of India", text.val)
  /\ StrIn("Ministry of Law", text.val)
  /\ StrIn("Notification No. X-123", text.val)
  /\ StrIn("dated the 5th day", text.val)
  /\ WordCount(text.val) >= 100
  /\ classification.confidence = classification.all_scores["government_notification"]
  /\ FLess(Float(4964, 10000), classification.confidence)
  /\ FLess(classification.confidence, Float(4965, 10000))
  /\ classification.document_type = "general_legal_document"

\* C8, as stated: every text of exactly five words is returned as "unknown"
\* with confidence exactly 0.0, the guard having fired before any scoring.
C8_FiveWordsZeroConfidence ==
  (pc = "classified" /\ text.tag = "str" /\ WordCount(text.val) = 5)
  => /\ classification.document_type = "unknown"
     /\ classification.confidence = Float(0, 1)

\* C8, as the code has it: every text of exactly five words is returned as
\* "unknown" with confidence at most 0.0525 (a raw score of at most 1.05
\* times the length factor 5/100); the guard answers it, with confidence
\* 0.0 and no type scored, exactly when it strips to fewer than 10
\* characters.
C8_FiveWordsUnknown ==
  (pc = "classified" /\ text.tag = "str" /\ WordCount(text.val) = 5)
  => /\ classification.document_type = "unknown"
     /\ ~FLess(Float(525, 10000), classification.confidence)
     /\ classification.all_scores = EmptyDict <=> StrippedLen(text.val) < 10
     /\ dimension_scores = EmptyDict <=> StrippedLen(text.val) < 10
     /\ StrippedLen(text.val) < 10 => classification.confidence = Float(0, 1)

\* A five-word text of 10 characters or more was scored and returned as
\* "unknown" with a confidence above 0.0.
C8_Witness ==
  /\ pc = "classified"
  /\ text.tag = "str"
  /\ WordCount(text.val) = 5
  /\ StrippedLen(text.val) >= 10
  /\ classification.document_type = "unknown"
  /\ FLess(Float(0, 1), classification.confidence)
  /\ classification.all_scores # EmptyDict

---------------------------------------------------------------------------
(* Properties of select_frameworks, under SelectorSpec *)

\* C4: for every document type, confidence and content_indicators (None
\* included), selected_frameworks has at least 1 and at most 4 entries and
\* framework_count is its length.
C4_SelectionWithinBounds ==
  pc = "selected"
  => /\ Len(selection.selected_frameworks) >= 1
     /\ Len(selection.selected_frameworks) <= 4
     /\ selection.framework_count = Len(selection.selected_frameworks)

\* More than four frameworks were gathered and four were returned.
C4_Witness ==
  /\ pc = "selected"
  /\ Len(_apply_combination_rules(document_type,
           CandidateFrameworks(document_type, confidence,
             IF content_indicators.tag = "None" THEN EmptyDict
             ELSE content_indicators.val))) > 4
  /\ Len(selection.selected_frameworks) = 4
  /\ selection.framework_count = 4

\* C9: when the document type is privacy_policy or
\* dpdpa_compliance_document, or content_indicators holds a true
\* dpdpa_relevance or a non-empty privacy_terms, selected_frameworks
\* contains both privacy_rights_analysis and dpdpa_compliance.
C9_PrivacySignalSelectsBoth ==
  (/\ pc = "selected"
   /\ \/ document_type \in {"privacy_policy", "dpdpa_compliance_document"}
      \/ /\ content_indicators.tag = "dict"
         /\ \/ /\ "dpdpa_relevance" \in DOMAIN content_indicators.val
               /\ content_indicators.val["dpdpa_relevance"] = TRUE
            \/ /\ "privacy_terms" \in DOMAIN content_indicators.val
               /\ content_indicators.val["privacy_terms"] # <<>>)
  => /\ "privacy_rights_analysis" \in Range(selection.selected_frameworks)
     /\ "dpdpa_compliance" \in Range(selection.selected_frameworks)

\* A document of another type with a privacy signal filled all four places,
\* the two privacy frameworks among them.
C9_Witness ==
  /\ pc = "selected"
  /\ document_type \notin {"privacy_policy", "dpdpa_compliance_document"}
  /\ content_indicators.tag = "dict"
  /\ "privacy_terms" \in DOMAIN content_indicators.val
  /\ content_indicators.val["privacy_terms"] # <<>>
  /\ Len(selection.selected_frameworks) = 4
  /\ "privacy_rights_analysis" \in Range(selection.selected_frameworks)
  /\ "dpdpa_compliance" \in Range(selection.selected_frameworks)

\* C10: whenever confidence is at least 0.5, constitutional_analysis is in
\* selected_frameworks, whatever the document type and the indicators.
C10_ConfidentSelectsConstitutional ==
  (pc = "selected" /\ confidence * 10 >= 5 * ScoreUnit)
  => "constitutional_analysis" \in Range(selection.selected_frameworks)

\* At confidence exactly 0.5, a type no framework names and no
\* constitutional indicator: the default inclusion alone selected it.
C10_Witness ==
  /\ pc = "selected"
  /\ confidence * 10 = 5 * ScoreUnit
  /\ _get_primary_frameworks(document_type, confidence) = <<>>
  /\ _categorize_document_type(document_type) = "general_documents"
  /\ content_indicators = None
  /\ selection.selected_frameworks = <<"constitutional_analysis">>

---------------------------------------------------------------------------
(* Properties of calculate_comprehensive_score, under ScoringSpec *)

\* C5: the overall_score that calculate_comprehensive_score returns lies in
\* [0,100] when frameworks_applied is non-empty, whatever the framework
\* names and the document_analysis, and is exactly 0.0 when
\* frameworks_applied is empty.
C5_OverallScoreInRange ==
  (pc = "scored" /\ scoring_results.tag = "returned")
  => LET overall_score == scoring_results.overall_score
     IN  /\ overall_score.den > 0
         /\ frameworks_applied # <<>>
              => /\ AtLeast(overall_score, 0)
                 /\ overall_score.num <= 100 * Points * overall_score.den
         /\ frameworks_applied = <<>>
              => overall_score.num = 0 /\ ~overall_score.below

\* Two frameworks or more were scored, their weights added up, and the
\* overall score is a positive number of points.
C5_Witness ==
  /\ pc = "scored"
  /\ scoring_results.tag = "returned"
  /\ Len(frameworks_applied) >= 2
  /\ scoring_results.overall_score.den
       > Max(_get_category_weight("constitutional_compliance"),
             Max(_get_category_weight("privacy_compliance"),
                 _get_category_weight("dpdpa_compliance")))
  /\ scoring_results.overall_score.num > 0
  /\ scoring_results.overall_score.num
       <= 100 * Points * scoring_results.overall_score.den

\* C6: overall_score is the weighted mean of the category scores over the
\* distinct categories of category_scores: the sum of score(c) * weight(c)
\* divided by the sum of weight(c), each category counted once however
\* many frameworks of frameworks_applied map to it.
C6_WeightedMeanOverCategories ==
  (/\ pc = "scored"
   /\ scoring_results.tag = "returned"
   /\ scoring_results.category_keys # <<>>)
  => LET keys == scoring_results.category_keys
         weighted == SumSeq([i \in DOMAIN keys |->
                       scoring_results.category_scores[keys[i]].score
                       * _get_category_weight(keys[i])])
         weights == SumSeq([i \in DOMAIN keys |-> _get_category_weight(keys[i])])
     IN  scoring_results.overall_score.num * weights
           = weighted * scoring_results.overall_score.den

----------------------------------------------------------------------------
(* Properties of _get_risk_level, under RiskSpec *)

\* C11: for the risk type constitutional_risk, _get_risk_level returns the
\* first level, scanning very_low(90), low(75), medium(60), high(40),
\* very_high(0) in that order, whose threshold the score meets or exceeds, so
\* that exactly 90 gives very_low and 89.9 gives low; and no higher score
\* gives a worse level.
C11_ConstitutionalRiskBuckets ==
  (pc = "rated" /\ rated_type = "constitutional_risk")
  => LET tenths == rated_score.num \div (Points \div 10)
         \* the place of a level in the scan order, 1 for the best
         RiskRank(level) == CHOOSE i \in DOMAIN RiskLevelOrder : RiskLevelOrder[i] = level
     IN  /\ rated_level = IF tenths >= 900 THEN "very_low"
                          ELSE IF tenths >= 750 THEN "low"
                          ELSE IF tenths >= 600 THEN "medium"
                          ELSE IF tenths >= 400 THEN "high"
                          ELSE "very_high"
         /\ tenths = 900 => rated_level = "very_low"
         /\ tenths = 899 => rated_level = "low"
         /\ \A higher \in RatedScores :
              higher.num >= rated_score.num
              => RiskRank(_get_risk_level(rated_type, higher)) <= RiskRank(rated_level)

C11_Witness ==
  /\ pc = "rated"
  /\ rated_type = "constitutional_risk"
  /\ rated_score = Fraction(90 * Points, 1)
  /\ rated_level = "very_low"

----------------------------------------------------------------------------
(* Properties of _determine_compliance_level, under ComplianceSpec *)

\* C12: the compliance_level that calculate_comprehensive_score returns is
\* fixed by overall_score alone: excellent from 90, good from 80,
\* satisfactory from 70, needs_improvement from 60, poor below that; it is
\* never "unknown", and it is poor when frameworks_applied is empty.  The
\* same table holds for _determine_compliance_level on every drawn score.
C12_ComplianceLevelFromOverallScore ==
  LET Reaches(s, points) ==
        IF s.below THEN s.num > points * Points * s.den
        ELSE s.num >= points * Points * s.den
      Level(s) == IF Reaches(s, 90) THEN "excellent"
                  ELSE IF Reaches(s, 80) THEN "good"
                  ELSE IF Reaches(s, 70) THEN "satisfactory"
                  ELSE IF Reaches(s, 60) THEN "needs_improvement"
                  ELSE "poor"
  IN  /\ (pc = "scored" /\ scoring_results.tag = "returned")
         => /\ scoring_results.compliance_level = Level(scoring_results.overall_score)
            /\ scoring_results.compliance_level # "unknown"
            /\ frameworks_applied = <<>> => scoring_results.compliance_level = "poor"
      /\ pc = "graded" => rated_level = Level(rated_score)

C12_Witness ==
  /\ pc = "scored"
  /\ scoring_results.tag = "returned"
  /\ frameworks_applied # <<>>
  /\ scoring_results.compliance_level = "satisfactory"

----------------------------------------------------------------------------
(* Properties of _calculate_scoring_confidence, under ScoringSpec *)

\* C13: the confidence_level of a returned result is the unweighted mean of
\* (a) the classification confidence found in document_analysis (0.5 when it
\* holds none), (b) min(1, len(frameworks_applied) / 3) and (c) min(1, number
\* of non-empty, non-false fields of the indicator bundle / 8); with (a) in
\* [0,1] it lies in [0,1].  Quantities are in units of 1/ConfidenceUnit.
C13_ConfidenceIsMeanOfThree ==
  (pc = "scored" /\ scoring_results.tag = "returned")
  => LET record == document_analysis.document_classification
         found == record.tag = "dict" /\ "confidence" \in DOMAIN record.val
         a == IF found THEN record.val["confidence"] * (ConfidenceUnit \div ScoreUnit)
              ELSE ConfidenceUnit \div 2
         n == Len(frameworks_applied)
         b == IF n >= 3 THEN ConfidenceUnit ELSE (n * ConfidenceUnit) \div 3
         bundle == document_analysis.indian_legal_indicators
         fields == IF bundle.tag = "dict" THEN bundle.val ELSE EmptyDict
         filled == Cardinality({k \in DOMAIN fields : Truthy(k, fields[k])})
         c == IF filled >= 8 THEN ConfidenceUnit ELSE (filled * ConfidenceUnit) \div 8
     IN  /\ 3 * scoring_results.confidence_level = a + b + c
         /\ (a >= 0 /\ a <= ConfidenceUnit)
            => /\ scoring_results.confidence_level >= 0
               /\ scoring_results.confidence_level <= ConfidenceUnit

C13_Witness ==
  /\ pc = "scored"
  /\ scoring_results.tag = "returned"
  /\ Len(frameworks_applied) > 3
  /\ document_analysis.indian_legal_indicators = FullBundle
  /\ document_analysis.document_classification = Dict("confidence" :> ScoreUnit)
  /\ scoring_results.confidence_level = ConfidenceUnit

----------------------------------------------------------------------------
(* Properties of calculate_comprehensive_score's failure handling, under ScoringSpec *)

\* C14: calculate_comprehensive_score never ends in an exception: whatever
\* document_analysis holds (indicator bundle, classification record or chunk
\* list missing, None or filled) and whatever frameworks_applied lists, the
\* call returns a result record.
C14_ScoringAlwaysReturns ==
  pc = "scored" => scoring_results.tag = "returned"

----------------------------------------------------------------------------
(* Properties of select_frameworks' fallbacks, under SelectorSpec *)

\* C15: every element of selected_frameworks is a key of the framework
\* registry, for every document_type, confidence and content_indicators.
C15_SelectedAreRegistered ==
  pc = "selected"
  => \A i \in DOMAIN selection.selected_frameworks :
       /\ selection.selected_frameworks[i] \in DOMAIN framework_registry
       /\ selection.selected_frameworks[i] \in
            {"constitutional_analysis", "privacy_rights_analysis", "dpdpa_compliance",
             "contract_law_analysis", "administrative_law", "general_legal_analysis"}

\* C16 as stated: for a document_type that no framework lists among its
\* applicable_documents, the selection contains general_legal_analysis,
\* whatever the confidence and the content indicators.
C16_UnlistedTypeSelectsGeneral ==
  (/\ pc = "selected"
   /\ \A f \in DOMAIN framework_registry :
        document_type \notin Range(framework_registry[f].applicable_documents))
  => "general_legal_analysis" \in Range(selection.selected_frameworks)

\* C16, amended: for a document_type that no framework lists among its
\* applicable_documents, select_frameworks returns a non-empty selection, and
\* general_legal_analysis is in it exactly when nothing else was gathered:
\* the confidence is below 0.5, no content indicator asks for a framework and
\* no combination rule applies to the type.
C16_UnlistedTypeFallsBackWhenEmpty ==
  (/\ pc = "selected"
   /\ \A f \in DOMAIN framework_registry :
        document_type \notin Range(framework_registry[f].applicable_documents))
  => LET indicators == IF content_indicators.tag = "None" THEN EmptyDict
                       ELSE content_indicators.val
         signalled ==
           \/ Get(indicators, "constitutional_relevance", FALSE)
           \/ Get(indicators, "dpdpa_relevance", FALSE)
           \/ Get(indicators, "privacy_terms", <<>>) # <<>>
           \/ Get(indicators, "government_terms", <<>>) # <<>>
         ruled == document_type \in {"supreme_court_judgment", "high_court_judgment"}
     IN  /\ selection.selected_frameworks # <<>>
         /\ "general_legal_analysis" \in Range(selection.selected_frameworks)
            <=> (confidence * 2 < ScoreUnit /\ ~signalled /\ ~ruled)
         /\ (confidence * 2 < ScoreUnit /\ ~signalled /\ ~ruled)
            => selection.selected_frameworks = <<"general_legal_analysis">>

C16_Witness ==
  /\ pc = "selected"
  /\ document_type = "tax_invoice"
  /\ confidence * 2 = ScoreUnit
  /\ content_indicators = None
  /\ selection.selected_frameworks = <<"constitutional_analysis">>

----------------------------------------------------------------------------
(* Properties of the per-type score and of all_scores, under ClassifierSpec *)

\* C19 as stated: the final score of every type is clamp(raw, 0, 1) times
\* min(1.0, word_count / 100), raw being the weighted sum of the three
\* dimension scores plus a tenth of the bonus: clamped first, scaled after.
C19_ClampedThenScaled ==
  (pc = "classified" /\ ~GuardFires(text))
  => \A d \in DOMAIN classification.all_scores :
       LET raw == FAdd(WeightedSum(dimension_scores[d], document_patterns[d]),
                       FMul(_calculate_indian_legal_bonus(text.val), Float(1, 10)))
           length_factor == FMin(Float(1, 1), Float(WordCount(text.val), 100))
       IN  classification.all_scores[d] = FMul(FMin(Float(1, 1), raw), length_factor)

\* C19, amended: the final score of every type is
\* min(1.0, raw * min(1.0, word_count / 100)): scaled first, capped after.
C19_ScaledThenCapped ==
  (pc = "classified" /\ ~GuardFires(text))
  => \A d \in DOMAIN classification.all_scores :
       LET raw == FAdd(WeightedSum(dimension_scores[d], document_patterns[d]),
                       FMul(_calculate_indian_legal_bonus(text.val), Float(1, 10)))
           length_factor == FMin(Float(1, 1), Float(WordCount(text.val), 100))
       IN  classification.all_scores[d] = FMin(Float(1, 1), FMul(raw, length_factor))

\* A text of fewer than 100 words whose raw score for some type exceeds 1.0
\* was scored, and that type's final score exceeds its length factor.
C19_Witness ==
  /\ pc = "classified"
  /\ ~GuardFires(text)
  /\ WordCount(text.val) < 100
  /\ \E d \in DOMAIN classification.all_scores :
       /\ FLess(Float(1, 1),
                FAdd(WeightedSum(dimension_scores[d], document_patterns[d]),
                     FMul(_calculate_indian_legal_bonus(text.val), Float(1, 10))))
       /\ FLess(Float(WordCount(text.val), 100), classification.all_scores[d])


\* C20: for a text that passes the guard, all_scores has exactly one entry
\* for each registered document type; the entry of a type whose scoring
\* raised is 0.0, the entry of every other type is what
\* classify_with_confidence gives it when no scoring raises, and the winner
\* is the first type with the highest of all entries.
C20_FailedTypeScoresZero ==
  (pc = "classified" /\ ~GuardFires(text))
  => LET unharmed == classify_with_confidence(text, ScoreAllTypes(text.val, {}))
         all_scores == classification.all_scores
         winner == FirstMax(DocTypeOrder, all_scores, 1)
     IN  /\ DOMAIN all_scores = DOMAIN document_patterns
         /\ \A d \in failing_types : all_scores[d] = Float(0, 1)
         /\ \A d \in DOMAIN document_patterns \ failing_types :
              all_scores[d] = unharmed.all_scores[d]
         /\ \A d \in DOMAIN all_scores : ~FLess(all_scores[winner], all_scores[d])
         /\ classification.confidence = all_scores[winner]
         /\ classification.document_type \in {winner, "general_legal_document", "unknown"}

\* Scoring the type that would have won a 100-word notification raised: its
\* entry is 0.0 and another type with a positive entry took the decision.
C20_Witness ==
  /\ pc = "classified"
  /\ ~GuardFires(text)
  /\ WordCount(text.val) >= 100
  /\ failing_types = {"government_notification"}
  /\ classification.all_scores["government_notification"] = Float(0, 1)
  /\ FLess(Float(0, 1), classification.confidence)
  /\ \E d \in DOMAIN dimension_scores :
       FLess(Float(0, 1), dimension_scores[d].keyword_score)

----------------------------------------------------------------------------
(* Properties of validate_environment_variables, under EnvironmentSpec *)

\* C18: validate_environment_variables reports each of neo4j, groq and smtp
\* as true exactly when every variable that category requires is set to a
\* non-empty value; with NEO4J_URI, NEO4J_USER, NEO4J_PASSWORD and
\* GROQ_API_KEY set, neo4j and groq are true; and changing a variable of
\* another category does not change a category's result.
C18_CategoryValidIffAllSet ==
  pc = "validated"
  => LET IsSet(var) == environment[var] \notin {Missing, Str("")}
         needs == [neo4j |-> {"NEO4J_URI", "NEO4J_USER", "NEO4J_PASSWORD"},
                   groq  |-> {"GROQ_API_KEY"},
                   smtp  |-> {"SMTP_SERVER", "SENDER_EMAIL", "SENDER_PASSWORD"}]
     IN  /\ DOMAIN validation_results = {"neo4j", "groq", "smtp"}
         /\ \A c \in DOMAIN needs :
              validation_results[c] <=> \A var \in needs[c] : IsSet(var)
         /\ (\A var \in needs.neo4j \cup needs.groq : IsSet(var))
            => validation_results["neo4j"] /\ validation_results["groq"]
         /\ \A c \in DOMAIN needs :
              \A var \in DOMAIN environment \ needs[c] :
                \A value \in {Missing, Str(""), Str("configured")} :
                  validate_environment_variables(
                    [environment EXCEPT ![var] = value])[c] = validation_results[c]

\* The environment of the repository's test: the four neo4j and groq
\* variables set, the smtp ones unset.
C18_Witness ==
  /\ pc = "validated"
  /\ \A var \in {"NEO4J_URI", "NEO4J_USER", "NEO4J_PASSWORD", "GROQ_API_KEY"} :
       environment[var] = Str("configured")
  /\ \A var \in {"SMTP_SERVER", "SENDER_EMAIL", "SENDER_PASSWORD"} :
       environment[var] = Missing
  /\ validation_results["neo4j"]
  /\ validation_results["groq"]
  /\ ~validation_results["smtp"]

----------------------------------------------------------------------------
(* Properties of a session, under SessionSpec *)

\* C17: whatever calls of classify_with_confidence, select_frameworks and
\* calculate_comprehensive_score a session makes, each call leaves the
\* tables the engines hold and the arguments the caller passed as they were,
\* and two calls of classify_with_confidence on the same text return the
\* same document_type, confidence and all_scores, and two calls of
\* select_frameworks on the same arguments the same ordered
\* selected_frameworks, whatever was called in between.
C17_CallsAreHistoryIndependent ==
  /\ [][(pc \in {"classify", "select", "score"})
        => UNCHANGED <<self, text, document_type, confidence, content_indicators,
                       document_analysis, frameworks_applied>>]_vars
  /\ [](\A i, j \in DOMAIN CompletedCalls :
          (/\ CompletedCalls[i].op = CompletedCalls[j].op
           /\ CompletedCalls[i].op \in {"classify", "select"}
           /\ CompletedCalls[i].args = CompletedCalls[j].args)
          => CompletedCalls[i].result = CompletedCalls[j].result)

\* A select_frameworks call that read a combination rule of the table has
\* returned what the same call returned earlier in the session, with a call
\* of another operation in between.
C17_Witness ==
  /\ pc = "selected"
  /\ _categorize_document_type(document_type)
       \in DOMAIN self.application_rules.combination_rules
  /\ Len(history) >= 2
  /\ history[Len(history)].op # "select"
  /\ \E i \in DOMAIN history :
       /\ history[i].op = "select"
       /\ history[i].args = <<document_type, confidence, content_indicators>>
       /\ history[i].result = selection


----------------------------------------------------------------------------
(* Properties of analyze_document_comprehensive, under AnalyzerSpec *)

\* C21: the report's alternative classifications are at most three, are in
\* non-increasing order of confidence, each carry the level of their own
\* confidence, and never contain the document type that the report gives as
\* the primary classification.
C21_AlternativesExcludePrimary ==
  (pc = "analyzed" /\ analysis_result.tag = "returned") =>
    LET alternatives == analysis_result.alternative_classifications
    IN  /\ Len(alternatives) <= 3
        /\ \A k \in DOMAIN alternatives :
             /\ alternatives[k].document_type
                  # analysis_result.primary_classification.document_type
             /\ alternatives[k].confidence_level
                  = get_classification_confidence_level(alternatives[k].confidence)
             /\ k > 1 => ~FLess(alternatives[k - 1].confidence, alternatives[k].confidence)


----------------------------------------------------------------------------
(* Further properties of select_frameworks, under SelectorSpec *)

\* C22: every framework whose applicable_documents list contains the
\* document_type of the call is present in the returned selected_frameworks.
C22_PrimaryFrameworksSelected ==
  pc = "selected" =>
    \A f \in DOMAIN framework_registry :
       document_type \in Range(framework_registry[f].applicable_documents)
         => f \in Range(selection.selected_frameworks)


\* C23: each of the six coarse categories (government, privacy, commercial
\* contract, employment, judicial, general) is the category of at least one
\* document type, and that document type's candidate list receives the
\* frameworks configured for the category; in particular some document type is
\* categorised as employment_matters.
C23_EveryCategoryReached ==
  pc = "selected" =>
    \A category \in DOMAIN combination_rules \cup {"general_documents"} :
       \E d \in DocumentTypes :
          /\ _categorize_document_type(d) = category
          /\ Range(Get(combination_rules, category, <<>>))
               \subseteq Range(_apply_combination_rules(d, <<>>))


\* C24: selection_reasons has one non-empty justification for each selected
\* framework and no other key; a justification names the document-type match,
\* the content-indicator match and the high-confidence default inclusion
\* exactly when that step put the framework into the selection, and it is the
\* generic sentence only when none of the three steps did.
C24_ReasonsNameTheCauses ==
  pc = "selected" =>
    LET indicators == IF content_indicators.tag = "None" THEN EmptyDict
                      ELSE content_indicators.val
        primary == Range(_get_primary_frameworks(document_type, confidence))
        content == Range(_get_content_based_frameworks(indicators))
        default == IF confidence * 10 >= 5 * ScoreUnit
                   THEN {"constitutional_analysis"} \ (primary \cup content)
                   ELSE {}
        reasons == selection.selection_reasons
    IN  /\ DOMAIN reasons = Range(selection.selected_frameworks)
        /\ \A f \in DOMAIN reasons :
             /\ reasons[f] # ""
             /\ StrIn("matches framework scope", reasons[f]) <=> f \in primary
             /\ (\/ StrIn("content detected", reasons[f])
                 \/ StrIn("content identified", reasons[f])
                 \/ StrIn("requirements identified", reasons[f])) <=> f \in content
             /\ StrIn("High classification confidence", reasons[f]) <=> f \in default
             /\ reasons[f] = "Selected based on document analysis and legal framework requirements"
                  => f \notin primary \cup content \cup default


----------------------------------------------------------------------------
(* Further properties of calculate_comprehensive_score, under ScoringSpec *)

\* C25: every name in frameworks_applied, listed in the lookup table or not,
\* maps to one scoring category; category_scores has one entry for each
\* category so reached and no other, and the entry of a category is the one
\* produced for the last framework of the list that maps to it, whose name
\* is in the entry's "framework" field.
C25_LastFrameworkWins ==
  (pc = "scored" /\ scoring_results.tag = "returned") =>
    LET category_scores == scoring_results.category_scores
        Last(c) == frameworks_applied[
                     CHOOSE i \in DOMAIN frameworks_applied :
                       /\ _map_framework_to_category(frameworks_applied[i]) = c
                       /\ \A j \in DOMAIN frameworks_applied :
                            j > i => _map_framework_to_category(frameworks_applied[j]) # c]
    IN  /\ DOMAIN category_scores
             = {_map_framework_to_category(f) : f \in Range(frameworks_applied)}
        /\ DOMAIN category_scores \subseteq DOMAIN scoring_criteria
        /\ \A c \in DOMAIN category_scores :
             /\ category_scores[c].category = c
             /\ category_scores[c].framework = Last(c)
             /\ category_scores[c] = _score_framework_category(Last(c), document_analysis)

C25_Witness ==
  /\ pc = "scored"
  /\ scoring_results.tag = "returned"
  /\ frameworks_applied = <<"administrative_law", "contract_law_analysis",
                            "constitutional_analysis">>
  /\ DOMAIN scoring_results.category_scores = {"constitutional_compliance"}
  /\ scoring_results.category_scores["constitutional_compliance"].framework
       = "constitutional_analysis"


\* C26: a criterion whose scoring_method is none of the three recognised
\* methods, or is missing, scores exactly 65.0 with no issue and the single
\* recommendation of a manual review, whatever document_analysis is; a
\* criterion whose scoring method fails keeps the default score 65.0 and
\* carries the error as its only issue; and the category score is the weighted
\* sum over all the category's criteria, clamped to [0, 100].
C26_DefaultAndFailedCriteria ==
  (pc = "scored" /\ scoring_results.tag = "returned") =>
    LET recognised == {"rights_protection_analysis", "puttaswamy_framework_assessment",
                       "lawful_processing_assessment"}
        Attempt(cfg) ==
          IF cfg.scoring_method = "rights_protection_analysis"
            THEN _score_fundamental_rights_protection(cfg, document_analysis)
          ELSE IF cfg.scoring_method = "puttaswamy_framework_assessment"
            THEN _score_privacy_rights_compliance(cfg, document_analysis)
          ELSE _score_dpdpa_lawful_basis(cfg, document_analysis)
        ByDefault(result) ==
          /\ result.score = 65
          /\ result.issues = <<>>
          /\ result.recommendations
               = <<"Manual review recommended for detailed assessment">>
    IN  \A c \in DOMAIN scoring_results.category_scores :
          LET entry == scoring_results.category_scores[c]
              criteria == scoring_criteria[c].criteria
              scored == entry.criterion_scores
          IN  /\ DOMAIN scored = DOMAIN criteria
              /\ \A i \in DOMAIN criteria :
                   /\ criteria[i].scoring_method \notin recognised => ByDefault(scored[i])
                   /\ (criteria[i].scoring_method \in recognised
                       /\ Attempt(criteria[i]).tag = "raised")
                        => /\ scored[i].score = 65
                           /\ Len(scored[i].issues) = 1
                           /\ StrIn("Scoring error for " \o criteria[i].name,
                                    scored[i].issues[1])
                           /\ scored[i].recommendations = <<>>
              /\ ByDefault(_score_criterion("unnamed", [name |-> "unnamed", weight |-> 30],
                                            document_analysis, entry.framework))
              /\ entry.score
                   = Min(100 * Points,
                         Max(0, SumSeq([i \in DOMAIN criteria |->
                                          scored[i].score * criteria[i].weight])))

C26_Witness ==
  /\ pc = "scored"
  /\ scoring_results.tag = "returned"
  /\ "dpdpa_compliance" \in DOMAIN scoring_results.category_scores
  /\ LET scored == scoring_results.category_scores["dpdpa_compliance"].criterion_scores
     IN  /\ scored[1].issues # <<>>
         /\ StrIn("Scoring error for lawful_basis", scored[1].issues[1])
         /\ scored[1].score = 65
         /\ scored[2].score = 65
         /\ scored[2].recommendations = <<"Manual review recommended for detailed assessment">>
         /\ scoring_results.category_scores["dpdpa_compliance"].score = 65 * Points


\* C27: the returned selected_frameworks has no duplicates and is in
\* non-decreasing priority order (5 for a framework missing from the
\* registry); frameworks of equal priority keep the order in which they were
\* first added (primary, content-based, confidence default, combination
\* rule); and the cut to four removes the entries of lowest priority, and
\* among those of equal priority the ones added last.
C27_SortedStableAndCutLast ==
  pc = "selected" =>
    LET indicators == IF content_indicators.tag = "None" THEN EmptyDict
                      ELSE content_indicators.val
        added == _apply_combination_rules(
                   document_type,
                   CandidateFrameworks(document_type, confidence, indicators))
        selected == selection.selected_frameworks
        Added(f) == CHOOSE i \in DOMAIN added : added[i] = f
        Precedes(f, g) == \/ PriorityOf(f) < PriorityOf(g)
                          \/ PriorityOf(f) = PriorityOf(g) /\ Added(f) < Added(g)
    IN  /\ \A i, j \in DOMAIN selected : i # j => selected[i] # selected[j]
        /\ \A i, j \in DOMAIN selected :
             i < j => PriorityOf(selected[i]) <= PriorityOf(selected[j])
        /\ added # <<>> =>
             /\ Range(selected) \subseteq Range(added)
             /\ \A i, j \in DOMAIN selected : i < j => Precedes(selected[i], selected[j])
             /\ \A f \in Range(added) \ Range(selected) :
                  /\ Len(selected) = maximum_frameworks
                  /\ \A g \in Range(selected) : Precedes(g, f)

C27_Witness ==
  /\ pc = "selected"
  /\ document_type = "service_agreement"
  /\ selection.selected_frameworks
       = <<"constitutional_analysis", "privacy_rights_analysis", "dpdpa_compliance",
           "administrative_law">>


----------------------------------------------------------------------------
(* Further properties of classify_with_confidence, under ClassifierSpec *)

\* C28: the returned label and confidence agree.  "unknown" comes with a
\* confidence of at most 0.2; "general_legal_document" with a confidence above
\* 0.2; any other type with a confidence of at least that type's threshold
\* (its configured value, or the default 0.4), and that type then holds the
\* largest value of all_scores.
C28_LabelMatchesConfidence ==
  pc = "classified" =>
    LET label == classification.document_type
        c == classification.confidence
        all_scores == classification.all_scores
    IN  /\ label = "unknown" => ~FLess(Float(2, 10), c)
        /\ label = "general_legal_document" => FLess(Float(2, 10), c)
        /\ label \notin {"unknown", "general_legal_document"} =>
             /\ ~FLess(c, Float(IF label \in DOMAIN confidence_thresholds
                                THEN confidence_thresholds[label]
                                ELSE confidence_thresholds["default"], 10))
             /\ label \in DOMAIN all_scores
             /\ all_scores[label] = c
             /\ \A d \in DOMAIN all_scores : ~FLess(all_scores[label], all_scores[d])

C28_Witness ==
  /\ pc = "classified"
  /\ classification.document_type = "unknown"
  /\ FLess(Float(0, 1), classification.confidence)
  /\ ~FLess(Float(2, 10), classification.confidence)
  /\ classification.all_scores # EmptyDict


\* C29: with the shipped criteria and thresholds no category score falls in
\* the high or very_high risk band: constitutional_compliance stays within
\* [63.5, 75.5], privacy_compliance within [57, 79] and dpdpa_compliance
\* within [65, 73.75]; critical_risks is therefore empty, and the overall
\* score of a non-empty frameworks_applied stays below 80, so that the
\* compliance level is never good or excellent.
C29_NoCriticalRisk ==
  (pc = "scored" /\ scoring_results.tag = "returned") =>
    LET category_scores == scoring_results.category_scores
        risk_assessment == scoring_results.risk_assessment
        lowest == "constitutional_compliance" :> 6350
               @@ "privacy_compliance" :> 5700
               @@ "dpdpa_compliance" :> 6500
        highest == "constitutional_compliance" :> 7550
                @@ "privacy_compliance" :> 7900
                @@ "dpdpa_compliance" :> 7375
    IN  /\ \A c \in DOMAIN category_scores :
             /\ lowest[c] <= category_scores[c].score
             /\ category_scores[c].score <= highest[c]
             /\ risk_assessment.category_risks[c].risk_level \notin {"high", "very_high"}
        /\ risk_assessment.critical_risks = <<>>
        /\ frameworks_applied # <<>> =>
             /\ ~AtLeast(scoring_results.overall_score, 80)
             /\ scoring_results.compliance_level \notin {"good", "excellent"}

C29_Witness ==
  /\ pc = "scored"
  /\ scoring_results.tag = "returned"
  /\ DOMAIN scoring_results.category_scores
       = {"constitutional_compliance", "privacy_compliance", "dpdpa_compliance"}
  /\ scoring_results.category_scores["constitutional_compliance"].score = 7550
  /\ scoring_results.category_scores["privacy_compliance"].score = 5700
  /\ scoring_results.category_scores["dpdpa_compliance"].score = 7375
  /\ scoring_results.risk_assessment.category_risks["privacy_compliance"].risk_level
       = "medium"


----------------------------------------------------------------------------
(* Further properties of _get_risk_level, under RiskSpec *)

\* C30: the risk type of a category is the first underscore-delimited token
\* of its name followed by "_risk", and a type without a table of its own is
\* bucketed with the overall_risk table.  dpdpa_compliance (dpdpa_risk) is
\* therefore bucketed with 87/72/57/37/0, privacy_compliance (privacy_risk)
\* with 85/70/55/35/0, and no category has the type compliance_risk.
C30_CategoryRiskTables ==
  LET RiskType(category) == FirstToken(category) \o "_risk"
      Bucket(very_low, low, medium, high) ==
        IF AtLeast(rated_score, very_low) THEN "very_low"
        ELSE IF AtLeast(rated_score, low) THEN "low"
        ELSE IF AtLeast(rated_score, medium) THEN "medium"
        ELSE IF AtLeast(rated_score, high) THEN "high"
        ELSE "very_high"
  IN  /\ RiskType("dpdpa_compliance") = "dpdpa_risk"
      /\ RiskType("privacy_compliance") = "privacy_risk"
      /\ RiskType("constitutional_compliance") = "constitutional_risk"
      /\ \A category \in DOMAIN scoring_criteria : RiskType(category) # "compliance_risk"
      /\ "dpdpa_risk" \notin DOMAIN risk_thresholds
      /\ pc = "rated" =>
           /\ rated_type = RiskType("dpdpa_compliance")
                => rated_level = Bucket(87, 72, 57, 37)
           /\ rated_type = RiskType("privacy_compliance")
                => rated_level = Bucket(85, 70, 55, 35)

C30_Witness ==
  /\ pc = "rated"
  /\ rated_type = "dpdpa_risk"
  /\ rated_score = Fraction(72 * Points, 1)
  /\ rated_level = "low"

=============================================================================
